---------------------------- MODULE Spec2Model ----------------------------
(***************************************************************************)
(* A model of the videold backend: the download orchestration engine       *)
(* (downloadWithProgress), the single-download and batch HTTP handlers,    *)
(* and the helpers they use (URL validator, filename sanitizer, cookie     *)
(* resolver).  The repository holds several revisions of the server side   *)
(* by side; each is modelled as a "revision" of the handler it defines:    *)
(*   "A"  src/backend/index.js lines 1-508  (and src/unnamed/part_000      *)
(*        lines 326-672, which shares its downloadWithProgress)            *)
(*   "B"  src/backend/index.js lines 510-1371                              *)
(*   "C"  src/unnamed/part_002                                             *)
(*   "S"  src/unnamed/part_000 lines 14-324 (streams yt-dlp's stdout)      *)
(*   "P"  src/unnamed/part_000 lines 326-672 (batch with placeholders)     *)
(* JavaScript strings are sequences of one-character strings, so that      *)
(* regular expressions, includes(), endsWith() and the sanitizer are       *)
(* computed character by character.                                        *)
(***************************************************************************)
EXTENDS Naturals, Integers, Sequences, FiniteSets, TLC

(***************************************************************************)
(* Strings                                                                 *)
(***************************************************************************)
Lower ==
  {"a","b","c","d","e","f","g","h","i","j","k","l","m","n","o","p","q","r","s","t","u","v","w","x","y","z"}
Upper ==
  {"A","B","C","D","E","F","G","H","I","J","K","L","M","N","O","P","Q","R","S","T","U","V","W","X","Y","Z"}
Digit ==
  {"0","1","2","3","4","5","6","7","8","9"}

\* JavaScript undefined / null (a falsy non-string), as a one-piece sequence
\* that no character string equals.
Undefined == <<"#undefined">>
Null == <<"#null">>

Truthy(v) == v # Undefined /\ v # Null /\ v # <<>>

Min(a, b) == IF a <= b THEN a ELSE b

\* s.substring(from, to) with 0-based from, exclusive to.
Substring(s, from, to) == SubSeq(s, from + 1, Min(to, Len(s)))

\* t occurs in s starting at 1-based position i.
MatchAt(s, i, t) ==
  /\ i >= 1
  /\ i + Len(t) - 1 <= Len(s)
  /\ SubSeq(s, i, i + Len(t) - 1) = t

\* s.includes(t)
Includes(s, t) == \E i \in 1..(Len(s) + 1) : MatchAt(s, i, t)

\* s.endsWith(t), s.startsWith(t)
EndsWith(s, t) == Len(t) <= Len(s) /\ MatchAt(s, Len(s) - Len(t) + 1, t)
StartsWith(s, t) == MatchAt(s, 1, t)

\* The lower-case form of one character, for the /i regular expressions.
UpperSeq ==
  <<"A","B","C","D","E","F","G","H","I","J","K","L","M","N","O","P","Q","R","S","T","U","V","W","X","Y","Z">>
LowerSeq ==
  <<"a","b","c","d","e","f","g","h","i","j","k","l","m","n","o","p","q","r","s","t","u","v","w","x","y","z">>

LowerOf(c) ==
  IF c \in Upper THEN LowerSeq[CHOOSE i \in 1..Len(UpperSeq) : UpperSeq[i] = c] ELSE c

ToLower(s) == [i \in 1..Len(s) |-> LowerOf(s[i])]

\* /t/i.test(s) for a literal t written in lower case.
IncludesNoCase(s, t) == Includes(ToLower(s), t)

(***************************************************************************)
(* isValidVideoUrl                                                         *)
(***************************************************************************)
Hosts ==
  { <<"y","o","u","t","u","b","e",".","c","o","m">>,
    <<"y","o","u","t","u",".","b","e">>,
    <<"m",".","y","o","u","t","u","b","e",".","c","o","m">>,
    <<"m","u","s","i","c",".","y","o","u","t","u","b","e",".","c","o","m">>,
    <<"f","a","c","e","b","o","o","k",".","c","o","m">>,
    <<"f","b",".","w","a","t","c","h">>,
    <<"i","n","s","t","a","g","r","a","m",".","c","o","m">>,
    <<"t","i","k","t","o","k",".","c","o","m">>,
    <<"v","t",".","t","i","k","t","o","k",".","c","o","m">>,
    <<"t","w","i","t","t","e","r",".","c","o","m">>,
    <<"x",".","c","o","m">> }

Schemes == { <<>>, <<"h","t","t","p",":">>, <<"h","t","t","p","s",":">> }

\* [a-zA-Z0-9-]
LabelChar == Lower \cup Upper \cup Digit \cup {"-"}

IsString(v) == v # Undefined /\ v # Null

\* A validator that looks for a whitelisted name anywhere in the string.
isValidVideoUrlUnanchored(url) ==
  IsString(url) /\ \E h \in Hosts : Includes(url, h)

\* typeof url === "string" && /^(https?:)?\/\/([a-zA-Z0-9-]+\.)?(hosts)\//.test(url)
isValidVideoUrl(url) ==
  /\ IsString(url)
  /\ \E sch \in Schemes :
       /\ MatchAt(url, 1, sch \o <<"/","/">>)
       /\ LET j == Len(sch) + 3 IN
            \/ \E h \in Hosts : MatchAt(url, j, h \o <<"/">>)
            \/ \E k \in (j + 1)..Len(url) :
                 /\ \A m \in j..(k - 1) : url[m] \in LabelChar
                 /\ url[k] = "."
                 /\ \E h \in Hosts : MatchAt(url, k + 1, h \o <<"/">>)

(***************************************************************************)
(* sanitizeFilename                                                        *)
(***************************************************************************)
\* [a-zA-Z0-9-_\.]
SafeChar == Lower \cup Upper \cup Digit \cup {"-", "_", "."}

\* A sanitizer that keeps unsafe characters.
KeepUnsafe(s) == s

\* .replace(/[^a-zA-Z0-9-_\.]/g, "_")
ReplaceUnsafe(s) == [i \in 1..Len(s) |-> IF s[i] \in SafeChar THEN s[i] ELSE "_"]

\* A sanitizer that keeps runs of underscores.
KeepRuns(s) == s

\* .replace(/_+/g, "_")
\* Each half is collapsed on its own; where the halves meet, two underscores
\* are one run.
RECURSIVE CollapseUnderscores(_)
CollapseUnderscores(s) ==
  IF Len(s) <= 1 THEN s
  ELSE LET h == Len(s) \div 2
           l == CollapseUnderscores(SubSeq(s, 1, h))
           r == CollapseUnderscores(SubSeq(s, h + 1, Len(s)))
       IN IF l[Len(l)] = "_" /\ r[1] = "_" THEN l \o Tail(r) ELSE l \o r

RECURSIVE DropLeading(_)
DropLeading(s) ==
  IF s # <<>> /\ s[1] = "_" THEN DropLeading(Tail(s)) ELSE s

RECURSIVE DropTrailing(_)
DropTrailing(s) ==
  IF s # <<>> /\ s[Len(s)] = "_" THEN DropTrailing(SubSeq(s, 1, Len(s) - 1)) ELSE s

\* .replace(/^_+|_+$/g, "")
TrimUnderscores(s) == DropTrailing(DropLeading(s))

MaxNameLen == 80

sanitizeFilename(name) ==
  Substring(TrimUnderscores(CollapseUnderscores(ReplaceUnsafe(name))), 0, MaxNameLen)

(***************************************************************************)
(* getCookiesFile                                                          *)
(***************************************************************************)
D_instagram == <<"i","n","s","t","a","g","r","a","m",".","c","o","m">>
D_youtube == <<"y","o","u","t","u","b","e",".","c","o","m">>
D_youtu_be == <<"y","o","u","t","u",".","b","e">>
D_facebook == <<"f","a","c","e","b","o","o","k",".","c","o","m">>
D_tiktok == <<"t","i","k","t","o","k",".","c","o","m">>
D_vt_tiktok == <<"v","t",".","t","i","k","t","o","k",".","c","o","m">>
D_twitter == <<"t","w","i","t","t","e","r",".","c","o","m">>
D_x == <<"x",".","c","o","m">>

\* The bundle files, by name (one piece each).
F_instagram == <<"instagram.com_cookies.txt">>
F_youtube == <<"youtube.com_cookies.txt">>
F_facebook == <<"facebook.com_cookies.txt">>
F_tiktok == <<"tiktok.com_cookies.txt">>
F_x == <<"x.com_cookies.txt">>

CookieFiles == {F_instagram, F_youtube, F_facebook, F_tiktok, F_x}

\* domainCookiesMap, in insertion order (revision B comments the YouTube rows out).
domainCookiesMap(rev) ==
  IF rev = "B"
  THEN << <<D_facebook, F_facebook>>, <<D_tiktok, F_tiktok>>, <<D_vt_tiktok, F_tiktok>>,
          <<D_twitter, F_x>>, <<D_x, F_x>> >>
  ELSE << <<D_facebook, F_facebook>>, <<D_tiktok, F_tiktok>>, <<D_vt_tiktok, F_tiktok>>,
          <<D_youtube, F_youtube>>, <<D_youtu_be, F_youtube>>,
          <<D_twitter, F_x>>, <<D_x, F_x>> >>

\* for (const domain in domainCookiesMap) if (url.includes(domain)) return exists ? file : null
MapLookup(rev, url, files) ==
  LET m == domainCookiesMap(rev)
      hits == {i \in 1..Len(m) : Includes(url, m[i][1])}
  IN IF hits = {} THEN Null
     ELSE LET first == CHOOSE i \in hits : \A j \in hits : i <= j
          IN IF m[first][2] \in files THEN m[first][2] ELSE Null

\* files: the bundle files that exist on disk at the moment of the call.
getCookiesFile(rev, url, files) ==
  IF IncludesNoCase(url, D_instagram)
  THEN IF rev = "S" THEN F_instagram
       ELSE IF F_instagram \in files THEN F_instagram ELSE Null
  ELSE IF rev = "B" /\ (IncludesNoCase(url, D_youtube) \/ IncludesNoCase(url, D_youtu_be))
  THEN IF F_youtube \in files THEN F_youtube ELSE Null
  ELSE MapLookup(rev, url, files)

(***************************************************************************)
(* yt-dlp argument lists.  An argument is a sequence of pieces whose        *)
(* concatenation is the JavaScript string; a literal is one piece.          *)
(***************************************************************************)
BEST_AVC == <<"bestvideo[vcodec^=avc1]+bestaudio[acodec^=mp4a]/best">>
BEST_X == <<"bestvideo*+bestaudio/best">>
BEST_MP4 == <<"bestvideo[ext=mp4]+bestaudio[ext=m4a]/best">>
BEST == <<"best">>
PLUS_BESTAUDIO == <<"+bestaudio[acodec^=mp4a]/best">>
OPT_F == <<"-f">>
OPT_O == <<"-o">>
NO_PLAYLIST == <<"--no-playlist">>
NEWLINE == <<"--newline">>
NO_WARNINGS == <<"--no-warnings">>
COOKIES == <<"--cookies">>
MERGE == <<"--merge-output-format">>
RECODE == <<"--recode-video">>
MP4 == <<"mp4">>
USER_AGENT == <<"--user-agent">>
UA_CHROME == <<"Mozilla/5.0 ... Chrome/124.0.0.0 Safari/537.36">>
ADD_HEADER == <<"--add-header">>
ACCEPT_LANGUAGE == <<"Accept-Language: en-US,en;q=0.9">>
EXT_TEMPLATE == <<".%(ext)s">>
TMPDIR == <<"tmpDir/">>
NONE == <<"none">>

MkFormat(id, v, a) == [format_id |-> id, vcodec |-> v, acodec |-> a]

\* The result of find() when no format matches (JavaScript undefined).
NoFormat == MkFormat(Undefined, Undefined, Undefined)

\* (info.formats || []).find((f) => f.format_id === quality)
FindFormat(info, quality) ==
  LET fs == info.formats
      hits == {i \in 1..Len(fs) : fs[i].format_id = quality}
  IN IF hits = {} THEN NoFormat
     ELSE fs[CHOOSE i \in hits : \A j \in hits : i <= j]

\* selectedFormat && vcodec === "none" && acodec && acodec !== "none"
IsAudioOnlyFormat(f) ==
  f # NoFormat /\ f.vcodec = NONE /\ Truthy(f.acodec) /\ f.acodec # NONE

\* selectedFormat && vcodec && acodec === "none"
IsVideoOnlyFormat(f) ==
  f # NoFormat /\ Truthy(f.vcodec) /\ f.acodec = NONE

IsFacebook(url) == Includes(url, D_facebook)
IsX(url) == Includes(url, D_x) \/ Includes(url, D_twitter)
IsInstagram(url) == Includes(url, D_instagram)
IsYouTube(url) == Includes(url, D_youtube) \/ Includes(url, D_youtu_be)

CookieArgs(cookiesFile) ==
  IF cookiesFile # Null THEN <<COOKIES, cookiesFile>> ELSE <<>>

MergeRecode == <<MERGE, MP4, RECODE, MP4>>

\* Revision B: the format branch of the argument list.
FormatArgsB(url, quality, info) ==
  IF IsFacebook(url) THEN <<OPT_F, BEST_AVC>> \o MergeRecode
  ELSE IF IsX(url) THEN <<OPT_F, BEST_X, MERGE, MP4>>
  ELSE IF IsInstagram(url) THEN
    <<OPT_F, IF Truthy(quality) THEN quality ELSE BEST_MP4>> \o MergeRecode
      \o <<USER_AGENT, UA_CHROME, ADD_HEADER, ACCEPT_LANGUAGE>>
  ELSE IF IsYouTube(url) THEN
    (IF Truthy(quality)
     THEN LET f == FindFormat(info, quality) IN
          IF IsAudioOnlyFormat(f) THEN <<OPT_F, quality>>
          ELSE IF IsVideoOnlyFormat(f) THEN <<OPT_F, quality \o PLUS_BESTAUDIO>> \o MergeRecode
          ELSE <<OPT_F, quality>> \o MergeRecode
     ELSE <<OPT_F, quality>> \o MergeRecode)
      \o <<USER_AGENT, UA_CHROME>>
  ELSE <<OPT_F, BEST_AVC>> \o MergeRecode

\* Revision B: isAudioOnly, recomputed after the branch.
IsAudioOnlyB(url, quality, info) ==
  IF IsYouTube(url)
  THEN Truthy(quality) /\ IsAudioOnlyFormat(FindFormat(info, quality))
  ELSE FALSE

\* A plan whose format expression depends on the cookie bundle.
PlanByBundle(url, quality, cookiesFile, info, safeFilename) ==
  <<NO_PLAYLIST, NEWLINE>> \o CookieArgs(cookiesFile)
    \o <<OPT_F, IF cookiesFile # Null THEN BEST ELSE BEST_AVC>> \o MergeRecode
    \o <<OPT_O, safeFilename \o EXT_TEMPLATE, url>>

BuildArgsB(url, quality, cookiesFile, info, safeFilename) ==
  <<NO_PLAYLIST, NEWLINE>> \o CookieArgs(cookiesFile)
    \o FormatArgsB(url, quality, info)
    \o (IF ~IsAudioOnlyB(url, quality, info) THEN MergeRecode ELSE <<>>)
    \o <<OPT_O, safeFilename \o EXT_TEMPLATE, url>>

\* Revision C: the branch chain begins at X/Twitter (no Facebook branch).
FormatArgsC(url, quality, info) ==
  IF IsX(url) THEN <<OPT_F, BEST_X>>
  ELSE IF IsInstagram(url) THEN
    <<OPT_F, IF Truthy(quality) THEN quality ELSE BEST_MP4,
      USER_AGENT, UA_CHROME, ADD_HEADER, ACCEPT_LANGUAGE>>
  ELSE IF Truthy(quality) THEN
    LET f == FindFormat(info, quality) IN
    IF IsAudioOnlyFormat(f) THEN <<OPT_F, quality>>
    ELSE IF IsVideoOnlyFormat(f) THEN <<OPT_F, quality \o PLUS_BESTAUDIO>>
    ELSE <<OPT_F, quality>>
  ELSE <<OPT_F, BEST_AVC>>

IsAudioOnlyC(url, quality, info) ==
  /\ ~IsX(url) /\ ~IsInstagram(url) /\ Truthy(quality)
  /\ IsAudioOnlyFormat(FindFormat(info, quality))

BuildArgsC(url, quality, cookiesFile, info, safeFilename) ==
  <<NO_PLAYLIST, NEWLINE>> \o CookieArgs(cookiesFile)
    \o FormatArgsC(url, quality, info)
    \o (IF ~IsAudioOnlyC(url, quality, info) THEN MergeRecode ELSE <<>>)
    \o <<OPT_O, TMPDIR \o safeFilename \o EXT_TEMPLATE, url>>

\* Revision A: one fixed list, the Facebook flags appended after the url.
BuildArgsA(url, quality, cookiesFile, info, safeFilename) ==
  CookieArgs(cookiesFile)
    \o <<NO_PLAYLIST, NO_WARNINGS, NEWLINE, OPT_F,
         IF Truthy(quality) THEN quality ELSE BEST,
         OPT_O, TMPDIR \o safeFilename \o <<".mp4">>, url>>
    \o (IF IsFacebook(url) THEN <<OPT_F, BEST_AVC>> \o MergeRecode ELSE <<>>)

BuildArgs(rev, url, quality, cookiesFile, info, safeFilename) ==
  CASE rev = "A" -> BuildArgsA(url, quality, cookiesFile, info, safeFilename)
    [] rev = "B" -> BuildArgsB(url, quality, cookiesFile, info, safeFilename)
    [] rev = "C" -> BuildArgsC(url, quality, cookiesFile, info, safeFilename)

\* The metadata probe of downloadWithProgress.
InfoArgs(url, cookiesFile) ==
  <<NO_PLAYLIST>> \o CookieArgs(cookiesFile) \o <<url>>

(***************************************************************************)
(* The fallback policy of the "error" handler of runYtDlp.                  *)
(***************************************************************************)
REQUESTED_FORMAT ==
  <<"R","e","q","u","e","s","t","e","d"," ","f","o","r","m","a","t"," ","i","s"," ",
    "n","o","t"," ","a","v","a","i","l","a","b","l","e">>

\* err.message?.includes(t) || err.stderr?.includes(t)
ErrIncludes(err, t) ==
  \/ (err.message # Undefined /\ Includes(err.message, t))
  \/ (err.stderr # Undefined /\ Includes(err.stderr, t))

\* The retry guard without the triedFallback flag.
FallbackEligibleUnflagged(rev, triedFallback, url, quality, err) ==
  IF rev = "A"
  THEN Truthy(quality)
  ELSE /\ ~IsFacebook(url)
       /\ Truthy(quality)
       /\ ErrIncludes(err, REQUESTED_FORMAT)

FallbackEligible(rev, triedFallback, url, quality, err) ==
  IF rev = "A"
  THEN ~triedFallback /\ Truthy(quality)
  ELSE /\ ~triedFallback
       /\ ~IsFacebook(url)
       /\ Truthy(quality)
       /\ ErrIncludes(err, REQUESTED_FORMAT)

\* fallbackArgs.findIndex((a, i) => a === "-f" && fallbackArgs[i + 1] === quality)
FormatIndex(a, quality) ==
  LET hits == {i \in 1..(Len(a) - 1) : a[i] = OPT_F /\ a[i + 1] = quality}
  IN IF hits = {} THEN 0 ELSE CHOOSE i \in hits : \A j \in hits : i <= j

\* fallbackArgs.indexOf("-f")
IndexOfF(a) ==
  LET hits == {i \in 1..Len(a) : a[i] = OPT_F}
  IN IF hits = {} THEN 0 ELSE CHOOSE i \in hits : \A j \in hits : i <= j

\* a[i + 1] = v; an assignment past the end extends the array.
SetAfter(a, i, v) ==
  IF i + 1 <= Len(a) THEN [a EXCEPT ![i + 1] = v] ELSE Append(a, v)

\* args: the list built by the Promise executor; currentArgs: the list of the
\* attempt that failed.  Revisions B and C copy args, revision A currentArgs.
FallbackArgs(rev, args, currentArgs, quality) ==
  IF rev = "A"
  THEN LET idx == IndexOfF(currentArgs)
       IN IF idx # 0 THEN SetAfter(currentArgs, idx, BEST_AVC) ELSE currentArgs
  ELSE LET formatIndex == FormatIndex(args, quality)
       IN IF formatIndex # 0 THEN SetAfter(args, formatIndex, BEST_AVC) ELSE args

(***************************************************************************)
(* Error texts and the status a catch block answers with.                   *)
(***************************************************************************)
E_format ==
  <<"E","R","R","O","R",":"," ","[","y","o","u","t","u","b","e","]"," ","a","b","c",":"," ","R","e","q","u","e","s","t","e","d"," ","f","o","r","m","a","t"," ","i","s"," ","n","o","t"," ","a","v","a","i","l","a","b","l","e">>
E_instagram ==
  <<"E","R","R","O","R",":"," ","[","I","n","s","t","a","g","r","a","m","]"," ","x",":"," ","R","e","q","u","e","s","t","e","d"," ","f","o","r","m","a","t"," ","i","s"," ","n","o","t"," ","a","v","a","i","l","a","b","l","e">>
E_other ==
  <<"E","R","R","O","R",":"," ","V","i","d","e","o"," ","u","n","a","v","a","i","l","a","b","l","e">>

\* yt-dlp-wrap's error: the diagnostic is in message, stderr is not set.
MkError(text) == [message |-> text, stderr |-> Undefined]

Errors == {MkError(E_format), MkError(E_instagram), MkError(E_other)}

\* (err.stderr || err.message || "").toString()
ErrMsg(err) ==
  IF Truthy(err.stderr) THEN err.stderr
  ELSE IF Truthy(err.message) THEN err.message ELSE <<>>

\* One of the alternatives of a /a|b|c/i test occurs in msg.
AnyNoCase(msg, alts) == \E a \in alts : IncludesNoCase(msg, a)

W_instagram == <<"i","n","s","t","a","g","r","a","m">>
W_facebook == <<"f","a","c","e","b","o","o","k">>
W_tiktok == <<"t","i","k","t","o","k">>
W_youtube == <<"y","o","u","t","u","b","e">>
W_youtu_be == <<"y","o","u","t","u",".","b","e">>
W_login_required == <<"l","o","g","i","n"," ","r","e","q","u","i","r","e","d">>
W_rate_limit_reached == <<"r","a","t","e","-","l","i","m","i","t"," ","r","e","a","c","h","e","d">>
W_not_available == <<"n","o","t"," ","a","v","a","i","l","a","b","l","e">>
W_use_cookies == <<"u","s","e"," ","-","-","c","o","o","k","i","e","s">>
W_locked == <<"m","a","i","n"," ","w","e","b","p","a","g","e"," ","i","s"," ","l","o","c","k","e","d"," ","b","e","h","i","n","d"," ","t","h","e"," ","l","o","g","i","n"," ","p","a","g","e">>
W_shared_data == <<"u","n","a","b","l","e"," ","t","o"," ","e","x","t","r","a","c","t"," ","s","h","a","r","e","d"," ","d","a","t","a">>
W_cookies == <<"c","o","o","k","i","e","s">>
W_forbidden == <<"f","o","r","b","i","d","d","e","n">>
W_403 == <<"4","0","3">>
W_sign_in == <<"s","i","g","n"," ","i","n">>
W_429 == <<"4","2","9">>
W_private == <<"t","h","i","s"," ","v","i","d","e","o"," ","i","s"," ","p","r","i","v","a","t","e">>
W_too_many == <<"t","o","o"," ","m","a","n","y"," ","r","e","q","u","e","s","t","s">>
W_quota_exceeded == <<"q","u","o","t","a"," ","e","x","c","e","e","d","e","d">>
W_rate_limit == <<"r","a","t","e"," ","l","i","m","i","t">>
W_quota == <<"q","u","o","t","a">>

\* The catch block of POST /api/downloads.
CatchStatus(rev, err) ==
  LET msg == ErrMsg(err) IN
  IF rev = "A" THEN
    IF IncludesNoCase(msg, W_facebook)
       /\ AnyNoCase(msg, {W_login_required, W_cookies, W_not_available})
    THEN 403 ELSE 500
  ELSE
    IF IncludesNoCase(msg, W_instagram)
       /\ AnyNoCase(msg, {W_login_required, W_rate_limit_reached, W_not_available,
                          W_use_cookies, W_locked, W_shared_data})
    THEN 403
    ELSE IF IncludesNoCase(msg, W_facebook)
            /\ AnyNoCase(msg, {W_login_required, W_not_available, W_cookies})
    THEN 403
    ELSE IF IncludesNoCase(msg, W_tiktok)
            /\ AnyNoCase(msg, {W_login_required, W_not_available, W_cookies,
                               W_forbidden, W_403})
    THEN 403
    ELSE IF rev = "B" THEN
      IF IncludesNoCase(msg, W_youtube)
         /\ AnyNoCase(msg, {W_cookies, W_sign_in, W_429})
      THEN 403 ELSE 500
    ELSE
      IF AnyNoCase(msg, {W_youtube, W_youtu_be})
         /\ AnyNoCase(msg, {W_login_required, W_not_available, W_cookies, W_private,
                            W_sign_in, W_429, W_too_many, W_quota_exceeded,
                            W_rate_limit, W_quota})
      THEN 429 ELSE 500

(***************************************************************************)
(* Files of a scratch workspace and the lookup of the output artifact.      *)
(***************************************************************************)
X_mp4 == <<".","m","p","4">>
X_txt == <<".","t","x","t">>
X_html == <<".","h","t","m","l">>
X_m4a == <<".","m","4","a">>
X_fragment == <<".","f","1","3","7",".","m","p","4">>
X_part_mp4 == <<".","p","a","r","t",".","m","p","4">>
X_f == <<".","f">>
X_temp == <<".","t","e","m","p">>

MinArtifactSize == 51200

\* A file: its name, its size in bytes, whether bytes 0..16 hold "ftyp", and
\* whether its first 300 characters hold "<!DOCTYPE html" or "<html".
MkFile(name, size, ftyp, html) ==
  [name |-> name, size |-> size, ftyp |-> ftyp, html |-> html]

\* What yt-dlp may leave in the workspace when it exits with code 0 for the
\* output template <base>.%(ext)s (readdir order).
ProducedFiles(base) ==
  { <<>>,
    << MkFile(base \o X_mp4, 100000, TRUE, FALSE) >>,
    << MkFile(base \o X_mp4, 2048, FALSE, TRUE) >>,
    << MkFile(base \o X_mp4, 2048, TRUE, FALSE) >>,
    << MkFile(base \o X_mp4, 100000, FALSE, FALSE) >>,
    << MkFile(base \o X_txt, 2048, FALSE, TRUE) >>,
    << MkFile(base \o X_fragment, 100000, TRUE, FALSE) >>,
    << MkFile(base \o X_m4a, 100000, TRUE, FALSE) >> }

\* The artifact is not a genuine media file.
Corrupt(f) == f.size < MinArtifactSize \/ ~f.ftyp \/ f.html

\* The result of find() when no file matches (JavaScript undefined).
NoFile == MkFile(Undefined, 0, FALSE, FALSE)

\* files.find(pred): the first file satisfying pred, or NoFile.
FindFile(files, Pred(_)) ==
  LET hits == {i \in 1..Len(files) : Pred(files[i].name)}
  IN IF hits = {} THEN NoFile
     ELSE files[CHOOSE i \in hits : \A j \in hits : i <= j]

IsMp4(name) == EndsWith(name, X_mp4)

IsMergedMp4(name) ==
  /\ EndsWith(name, X_mp4)
  /\ ~Includes(name, X_f)
  /\ ~Includes(name, X_temp)
  /\ ~EndsWith(name, X_part_mp4)

IsTxt(name) == EndsWith(name, X_txt)

\* path.extname(name).toLowerCase(): from the last dot (not at index 0) on.
ExtName(name) ==
  LET dots == {i \in 2..Len(name) : name[i] = "."}
  IN IF dots = {} THEN <<>>
     ELSE ToLower(SubSeq(name, CHOOSE i \in dots : \A j \in dots : j <= i, Len(name)))

\* The artifact the "close" handler of runYtDlp selects (NoFile: none).
LookupArtifact(rev, files, base) ==
  CASE rev = "A" -> FindFile(files, IsMp4)
    [] rev = "B" -> FindFile(files, IsMergedMp4)
    [] rev = "C" -> LET Named(n) == StartsWith(n, base \o <<".">>)
                    IN FindFile(files, Named)

\* Revision C rejects in the close handler what looks like an error page.
RejectedOnClose(rev, f) ==
  rev = "C" /\ (ExtName(f.name) = X_txt \/ ExtName(f.name) = X_html \/ f.html)

\* Revision C's handler checks of the returned artifact (size, then signature).
RejectedByHandler(rev, f) ==
  rev = "C" /\ (f.size < MinArtifactSize \/ ~f.ftyp)

\* The chunks (lengths) a read stream of the file delivers.
Chunks(f) ==
  IF f.size = 0 THEN <<>>
  ELSE IF f.size <= 65536 THEN <<f.size>>
  ELSE <<65536, f.size - 65536>>

(***************************************************************************)
(* The metadata the probe returns.                                          *)
(***************************************************************************)
Q_progressive == <<"22">>
Q_video_only == <<"137">>
Q_audio_only == <<"140">>
Q_unknown == <<"999">>

StdFormats ==
  << MkFormat(Q_progressive, <<"avc1.64001F">>, <<"mp4a.40.2">>),
     MkFormat(Q_video_only, <<"avc1.640028">>, NONE),
     MkFormat(Q_audio_only, NONE, <<"mp4a.40.2">>) >>

T_my_video == <<"M","y"," ","V","i","d","e","o">>
UuidV4 == <<"6","f","1","c","-","4","e","2","a">>

Titles == {T_my_video, Undefined}

Infos == {[title |-> t, formats |-> StdFormats] : t \in Titles}

\* uuidv4() returns a fresh value at every call: the value returned by the
\* call made for element i of a batch (i = 0 for a single download).
UuidEnds == <<"0","1","2","3","4","5","6","7","8","9","b","c","d","e","f">>
Uuid(i) ==
  IF i <= 1 THEN UuidV4
  ELSE SubSeq(UuidV4, 1, Len(UuidV4) - 1) \o <<UuidEnds[((i - 2) % Len(UuidEnds)) + 1]>>

\* sanitizeFilename(info.title || uuidv4()), in the call made for element i.
SafeFilenameOf(info, i) ==
  sanitizeFilename(IF Truthy(info.title) THEN info.title ELSE Uuid(i))

\* sanitizeFilename(info.title || uuidv4())
SafeFilename(info) == SafeFilenameOf(info, 0)

(***************************************************************************)
(* Requests                                                                 *)
(***************************************************************************)
U_youtube ==
  <<"h","t","t","p","s",":","/","/","w","w","w",".","y","o","u","t","u","b","e",".","c","o","m","/","w","a","t","c","h","?","v","=","a","b","c">>
U_facebook ==
  <<"h","t","t","p","s",":","/","/","w","w","w",".","f","a","c","e","b","o","o","k",".","c","o","m","/","w","a","t","c","h","/","?","v","=","1","2","3">>
U_x ==
  <<"h","t","t","p","s",":","/","/","x",".","c","o","m","/","u","/","s","t","a","t","u","s","/","1">>
U_instagram ==
  <<"h","t","t","p","s",":","/","/","w","w","w",".","i","n","s","t","a","g","r","a","m",".","c","o","m","/","p","/","D","G","M","U","x","6","X","h","4","Z","x">>
U_tiktok ==
  <<"h","t","t","p","s",":","/","/","v","t",".","t","i","k","t","o","k",".","c","o","m","/","Z","S","1","/">>
U_unsupported ==
  <<"h","t","t","p","s",":","/","/","e","v","i","l",".","e","x","a","m","p","l","e","/","v">>

\* The url field of a request body: admitted urls, an unsupported host and a
\* value that is not a string.
ReqUrls == {U_youtube, U_facebook, U_x, U_instagram, U_tiktok, U_unsupported, Undefined}
ReqQualities == {Undefined, Q_progressive, Q_video_only, Q_audio_only, Q_unknown}
ReqIds == {Undefined, <<"d1">>}

\* One element of the videos array of a batch request.
MkVideo(url, quality, title) == [url |-> url, quality |-> quality, title |-> title]

BatchVideos ==
  { MkVideo(U_youtube, Undefined, Undefined),
    MkVideo(U_facebook, Q_progressive, T_my_video),
    MkVideo(U_unsupported, Undefined, Undefined) }

\* The longest batch the model completes.
MaxBatch == 2

\* isArray({ min: 1, max: 20 })
MaxVideos == 20

\* The videos field of a batch request: not an array, or an array of up to
\* MaxBatch elements, or an array one longer than the limit.
NotArray == [array |-> FALSE, items |-> <<>>]
ReqBatches ==
  {NotArray} \cup
  {[array |-> TRUE, items |-> s] : s \in UNION {[1..n -> BatchVideos] : n \in 0..MaxBatch}}
Oversized ==
  [array |-> TRUE, items |-> [i \in 1..(MaxVideos + 1) |-> MkVideo(U_youtube, Undefined, Undefined)]]

NoRequest ==
  [url |-> Undefined, quality |-> Undefined, downloadId |-> Undefined, videos |-> NotArray]

\* The states of the cookie directory the model starts from.
CookieStates == {{}, CookieFiles}

(***************************************************************************)
(* State                                                                    *)
(***************************************************************************)
VARIABLES
  pc,       \* where the handler of the request stands
  ep,       \* the endpoint serving the request: [route, rev]
  req,      \* the request body
  cookies,  \* the cookie bundle files that exist on disk
  procs,    \* the external processes started for the request, in start order
  wss,      \* the scratch workspaces created for the request, in creation order
  dl,       \* the locals of the download in progress (the downloadWithProgress
            \* closure, or the loop body of a batch handler)
  res,      \* the HTTP response
  stream,   \* the read stream of the artifact
  archive,  \* the entries handed to the ZIP archive, in order
  item,     \* the index of the batch item being processed
  io        \* the progress events the socket.io server has emitted, in order

vars == <<pc, ep, req, cookies, procs, wss, dl, res, stream, archive, item, io>>

\* An external process: a metadata probe ("probe", "meta") or a download.
\* piped: its stdout is connected to the response or to the archive.
MkProc(kind, args, piped) ==
  [kind |-> kind, args |-> args, running |-> TRUE, piped |-> piped]

\* A process list in which the last process is still running.
StillRunning(ps) == ps

\* The last process started has emitted its final event.
Terminated(ps) == [ps EXCEPT ![Len(ps)].running = FALSE]

\* tmp.dirSync({ unsafeCleanup: true })
NewWorkspace ==
  [state |-> "live", called |-> FALSE, calls |-> 0, files |-> <<>>]

NoCall ==
  [rev |-> "-", state |-> "none", ws |-> 0, url |-> Undefined, quality |-> Undefined,
   downloadId |-> Undefined, cookiesFile |-> Null, title |-> Undefined,
   safeFilename |-> <<>>,
   args |-> <<>>, triedFallback |-> FALSE, result |-> NoFile,
   error |-> MkError(Undefined)]

NoResponse ==
  [status |-> 0, headSent |-> FALSE, bytes |-> 0, ended |-> FALSE, lateError |-> FALSE,
   details |-> Undefined]

\* io.emit reaches every connected socket.
Everyone == <<"*">>

\* io.to(room).emit("progress", { percent }).
Emit(log, room, percent) == Append(log, [to |-> room, percent |-> percent])

\* if (downloadId) io.to(downloadId).emit("progress", { percent }).
EmitIf(log, downloadId, percent) ==
  IF Truthy(downloadId) THEN Emit(log, downloadId, percent) ELSE log

\* (a / b) * 100, to the whole percent below.
Percent(a, b) == (a * 100) \div b

\* Math.round((a / b) * 100)
RoundPercent(a, b) == (a * 200 + b) \div (2 * b)

NoStream == [state |-> "none", sent |-> 0, file |-> NoFile, ws |-> 0]

Init ==
  /\ pc = "idle"
  /\ ep = [route |-> "-", rev |-> "-"]
  /\ req = NoRequest
  /\ cookies \in CookieStates
  /\ procs = <<>>
  /\ wss = <<>>
  /\ dl = NoCall
  /\ res = NoResponse
  /\ stream = NoStream
  /\ archive = <<>>
  /\ item = 0
  /\ io = <<>>

(***************************************************************************)
(* The cleanup capability: tmpDir.removeCallback of the tmp package.  The   *)
(* package is not part of the repository; the capability is modelled as the *)
(* one-shot, idempotent release the specification describes.  calls counts  *)
(* the invocations and is not part of the program state.                    *)
(***************************************************************************)
\* The release without the one-shot guard: removing a directory that is
\* already gone fails.
removeCallbackUnguarded(w) ==
  [w EXCEPT !.calls = @ + 1, !.called = TRUE, !.files = <<>>,
            !.state = IF w.state = "live" THEN "destroyed" ELSE "error"]

removeCallback(w) ==
  IF w.called
  THEN [w EXCEPT !.calls = @ + 1]
  ELSE [w EXCEPT !.calls = @ + 1, !.called = TRUE, !.state = "destroyed", !.files = <<>>]

(***************************************************************************)
(* The HTTP response                                                        *)
(***************************************************************************)
\* res.status(s).json(...) / .send(...): writes head and body when the head
\* has not been written; afterwards the attempt fails (headers already sent).
Answer(r, s) ==
  IF r.headSent
  THEN [r EXCEPT !.lateError = TRUE]
  ELSE [r EXCEPT !.status = s, !.headSent = TRUE, !.ended = TRUE]

\* res.writeHead(200, ...), or the implicit head of the first write of a pipe.
WriteHead(r) == IF r.headSent THEN r ELSE [r EXCEPT !.status = 200, !.headSent = TRUE]

(***************************************************************************)
(* downloadWithProgress                                                     *)
(***************************************************************************)
E_download_failed ==
  <<"D","o","w","n","l","o","a","d"," ","f","a","i","l","e","d">>

\* A promise whose rejection is lost: it stays pending.
rejectLost(d, err) == d

\* reject(err) of the promise the call returned, and the throw of the async
\* function: the first settlement wins, a later one does nothing.
reject(d, err) ==
  IF d.state \in {"ready", "failed"} THEN d
  ELSE [d EXCEPT !.state = "failed", !.error = err]

\* resolve({ filePath, filename, cleanup }) of the promise the call returned;
\* the error of a retried attempt is not part of the outcome.
resolve(d, f) ==
  IF d.state \in {"ready", "failed"} THEN d
  ELSE [d EXCEPT !.state = "ready", !.result = f, !.error = MkError(Undefined)]

\* The call: create the workspace, resolve the cookie bundle, start the probe.
CallDownload(rev, url, quality, downloadId, w) ==
  LET cookiesFile == getCookiesFile(rev, url, cookies) IN
  /\ wss' = Append(w, NewWorkspace)
  /\ dl' = [NoCall EXCEPT !.rev = rev, !.state = "probing", !.ws = Len(w) + 1,
                          !.url = url, !.quality = quality,
                          !.downloadId = downloadId, !.cookiesFile = cookiesFile]
  /\ procs' = Append(procs, MkProc("probe", InfoArgs(url, cookiesFile), FALSE))
  /\ pc' = "probing"

\* await ytDlpWrap.getVideoInfo(infoArgs) settles.  On success the argument
\* list is built and the first attempt started; on failure revisions B and C
\* release the workspace in their catch block, revision A has none.
ProbeSettles ==
  /\ pc = "probing"
  /\ \/ \E err \in Errors :
          /\ wss' = IF dl.rev = "A" THEN wss
                    ELSE [wss EXCEPT ![dl.ws] = removeCallback(@)]
          /\ dl' = reject(dl, err)
          /\ procs' = Terminated(procs)
          /\ pc' = "rejected"
     \/ \E info \in Infos :
          LET safe == SafeFilenameOf(info, item)
              args == BuildArgs(dl.rev, dl.url, dl.quality, dl.cookiesFile, info, safe)
          IN /\ dl' = [dl EXCEPT !.state = "downloading", !.title = info.title,
                                 !.safeFilename = safe, !.args = args]
             /\ procs' = Append(Terminated(procs), MkProc("download", args, FALSE))
             /\ pc' = "downloading"
             /\ UNCHANGED wss
  /\ UNCHANGED <<ep, req, cookies, res, stream, archive, item, io>>

\* The "error" event of the running attempt (a non-zero exit code).
ProcessError ==
  /\ pc = "downloading"
  /\ \E err \in Errors :
       IF FallbackEligible(dl.rev, dl.triedFallback, dl.url, dl.quality, err)
       THEN /\ dl' = [dl EXCEPT !.triedFallback = TRUE, !.error = err]
            /\ procs' = Append(Terminated(procs),
                               MkProc("download",
                                      FallbackArgs(dl.rev, dl.args,
                                                   procs[Len(procs)].args, dl.quality),
                                      FALSE))
            /\ UNCHANGED <<pc, wss>>
       ELSE /\ wss' = [wss EXCEPT ![dl.ws] = removeCallback(@)]
            /\ dl' = reject(dl, err)
            /\ procs' = Terminated(procs)
            /\ pc' = "rejected"
  /\ UNCHANGED <<ep, req, cookies, res, stream, archive, item, io>>

\* The "close" listener when the process left files in the workspace: look
\* the artifact up among them.
CloseOn(files) ==
  LET f == LookupArtifact(dl.rev, files, dl.safeFilename) IN
  /\ procs' = Terminated(procs)
  /\ IF f = NoFile \/ RejectedOnClose(dl.rev, f)
     THEN /\ wss' = [wss EXCEPT ![dl.ws] = removeCallback([@ EXCEPT !.files = files])]
          /\ dl' = reject(dl, MkError(E_download_failed))
          /\ pc' = "rejected"
     ELSE /\ wss' = [wss EXCEPT ![dl.ws].files = files]
          /\ dl' = resolve(dl, f)
          /\ pc' = "resolved"

\* The "close" event of the running attempt (exit code 0).
ProcessClose ==
  /\ pc = "downloading"
  /\ \E files \in ProducedFiles(dl.safeFilename) : CloseOn(files)
  /\ UNCHANGED <<ep, req, cookies, res, stream, archive, item, io>>

(***************************************************************************)
(* POST /api/downloads (revisions A, B, C)                                  *)
(***************************************************************************)
DUMP_JSON == <<"--dump-single-json">>
FLAT_PLAYLIST == <<"--flat-playlist">>

MetaArgs(url, cookiesFile) ==
  CookieArgs(cookiesFile) \o <<DUMP_JSON, FLAT_PLAYLIST, url>>

ReceiveDownloads(rev) ==
  /\ pc = "idle"
  /\ \E url \in ReqUrls, quality \in ReqQualities, downloadId \in ReqIds :
       /\ ep' = [route |-> "downloads", rev |-> rev]
       /\ req' = [NoRequest EXCEPT !.url = url, !.quality = quality,
                                  !.downloadId = downloadId]
       /\ IF ~isValidVideoUrl(url)
          THEN /\ res' = Answer(res, 400)
               /\ pc' = "done"
               /\ UNCHANGED <<procs, wss, dl>>
          ELSE IF rev # "A" /\ ~Truthy(quality)
          THEN /\ procs' = Append(procs,
                                  MkProc("meta",
                                         MetaArgs(url, getCookiesFile(rev, url, cookies)),
                                         FALSE))
               /\ pc' = "meta"
               /\ UNCHANGED <<res, wss, dl>>
          ELSE /\ CallDownload(rev, url, quality, downloadId, wss)
               /\ UNCHANGED res
  /\ UNCHANGED <<cookies, stream, archive, item, io>>

\* The most entries of a playlist the model follows.
MaxEntries == 2

\* v.url of a playlist entry, as yt-dlp reports it.
EntryUrl == U_youtube

FullInfoArgs(videoUrl, cookiesFile) ==
  CookieArgs(cookiesFile) \o <<DUMP_JSON, videoUrl>>

RECURSIVE Spawn(_, _, _)
Spawn(ps, p, n) == IF n = 0 THEN ps ELSE Spawn(Append(ps, p), p, n - 1)

\* await ytDlpWrap.execPromise(args) of the metadata branch settles: a single
\* video is answered; for a playlist one process per entry is started, all at
\* once.
MetaSettles ==
  /\ pc = "meta"
  /\ \/ /\ procs' = Terminated(procs)
        /\ res' = Answer(res, 200)
        /\ pc' = "done"
        /\ UNCHANGED dl
     \/ \E n \in 1..MaxEntries :
          /\ procs' = Spawn(Terminated(procs),
                            MkProc("meta",
                                   FullInfoArgs(EntryUrl,
                                                getCookiesFile(ep.rev, req.url, cookies)),
                                   FALSE),
                            n)
          /\ pc' = "meta_entries"
          /\ UNCHANGED <<res, dl>>
     \/ \E err \in Errors :
          /\ procs' = Terminated(procs)
          /\ dl' = [dl EXCEPT !.error = err]
          /\ pc' = "rejected"
          /\ UNCHANGED res
  /\ UNCHANGED <<ep, req, cookies, wss, stream, archive, item, io>>

\* The process of one playlist entry settles: Promise.all resolves with the
\* last success and rejects with the first failure.
EntrySettles ==
  /\ pc = "meta_entries"
  /\ \E i \in 1..Len(procs) :
       /\ procs[i].running
       /\ procs' = [procs EXCEPT ![i].running = FALSE]
       /\ \/ /\ \E j \in 1..Len(procs) : j # i /\ procs[j].running
             /\ UNCHANGED <<pc, res, dl>>
          \/ /\ \A j \in 1..Len(procs) : j # i => ~procs[j].running
             /\ res' = Answer(res, 200)
             /\ pc' = "done"
             /\ UNCHANGED dl
          \/ \E err \in Errors :
               /\ dl' = [dl EXCEPT !.error = err]
               /\ pc' = "rejected"
               /\ UNCHANGED res
  /\ UNCHANGED <<ep, req, cookies, wss, stream, archive, item, io>>

\* A body whose details field repeats the generic error line.
GenericDetails(rev, err) == E_download_failed

\* The details field of the body the catch block answers with: msg in
\* revision A; errMsg in the login/rate-limit branches and err.message in the
\* default branch of revisions B and C.
CatchDetails(rev, err) ==
  IF rev = "A" \/ CatchStatus(rev, err) # 500 THEN ErrMsg(err) ELSE err.message

\* res.status(s).json({error, details}).
AnswerJson(r, s, d) ==
  IF r.headSent THEN Answer(r, s) ELSE [Answer(r, s) EXCEPT !.details = d]

\* The handler's catch block.
DownloadsCatch ==
  /\ pc = "rejected"
  /\ ep.route = "downloads"
  /\ res' = AnswerJson(res, CatchStatus(ep.rev, dl.error),
                       CatchDetails(ep.rev, dl.error))
  /\ pc' = "done"
  /\ UNCHANGED <<ep, req, cookies, procs, wss, dl, stream, archive, item, io>>

\* The handler resumes with the DownloadResult: revision C validates size and
\* signature; then the head is written and the artifact piped to the response.
DownloadsResume ==
  /\ pc = "resolved"
  /\ ep.route = "downloads"
  /\ IF RejectedByHandler(ep.rev, dl.result)
     THEN /\ wss' = [wss EXCEPT ![dl.ws] = removeCallback(@)]
          /\ res' = Answer(res, 500)
          /\ pc' = "done"
          /\ UNCHANGED stream
     ELSE /\ res' = WriteHead(res)
          /\ stream' = [state |-> "open", sent |-> 0, file |-> dl.result, ws |-> dl.ws]
          /\ pc' = "streaming"
          /\ UNCHANGED wss
  /\ UNCHANGED <<ep, req, cookies, procs, dl, archive, item, io>>

\* bytesSent after k chunks of the file.
RECURSIVE BytesSent(_, _)
BytesSent(f, k) == IF k = 0 THEN 0 ELSE BytesSent(f, k - 1) + Chunks(f)[k]

\* The percent the "data" listener of POST /api/downloads reports with chunk
\* k: the chunk's share in revision A, the share of the bytes sent so far in
\* revisions B and C.
DataPercent(rev, f, k) ==
  IF rev = "A" THEN Percent(Chunks(f)[k], f.size) ELSE Percent(BytesSent(f, k), f.size)

\* stream "data": one chunk of the artifact is written to the response; the
\* listener of POST /api/downloads reports the progress.
StreamData ==
  /\ pc = "streaming"
  /\ stream.state = "open"
  /\ stream.sent < Len(Chunks(stream.file))
  /\ stream' = [stream EXCEPT !.sent = @ + 1]
  /\ res' = [WriteHead(res) EXCEPT !.bytes = @ + Chunks(stream.file)[stream.sent + 1]]
  /\ io' = IF ep.route = "downloads"
           THEN EmitIf(io, dl.downloadId, DataPercent(ep.rev, stream.file, stream.sent + 1))
           ELSE io
  /\ UNCHANGED <<pc, ep, req, cookies, procs, wss, dl, archive, item>>

\* stream "end": every chunk was read; pipe() ends the response.
StreamEnd ==
  /\ pc = "streaming"
  /\ stream.state = "open"
  /\ stream.sent = Len(Chunks(stream.file))
  /\ stream' = [stream EXCEPT !.state = "ended"]
  /\ res' = [WriteHead(res) EXCEPT !.ended = TRUE]
  /\ io' = IF ep.route = "downloads" THEN EmitIf(io, dl.downloadId, 100) ELSE io
  /\ UNCHANGED <<pc, ep, req, cookies, procs, wss, dl, archive, item>>

\* stream "error": the listener calls cleanup() and tries to answer 500.
StreamError ==
  /\ pc = "streaming"
  /\ stream.state = "open"
  /\ stream' = [stream EXCEPT !.state = "errored"]
  /\ wss' = [wss EXCEPT ![stream.ws] = removeCallback(@)]
  /\ res' = Answer(res, 500)
  /\ UNCHANGED <<pc, ep, req, cookies, procs, dl, archive, item, io>>

\* The client closes the connection while the artifact is being read: pipe()
\* unpipes the read stream and leaves it open; it neither ends nor closes,
\* and the handler listens to no event of the response.
ClientAbort ==
  /\ pc = "streaming"
  /\ stream.state = "open"
  /\ stream' = [stream EXCEPT !.state = "unpiped"]
  /\ res' = [res EXCEPT !.ended = TRUE]
  /\ pc' = "abandoned"
  /\ UNCHANGED <<ep, req, cookies, procs, wss, dl, archive, item, io>>

\* The "error" listener's answer after the head was written throws, and
\* nothing catches it: the server process ends instead of emitting "close".
ServerCrash ==
  /\ pc = "streaming"
  /\ stream.state = "errored"
  /\ res.lateError
  /\ pc' = "crashed"
  /\ UNCHANGED <<ep, req, cookies, procs, wss, dl, res, stream, archive, item, io>>

\* stream "close", after "end" or after "error": the listener is cleanup.
StreamClose ==
  /\ pc = "streaming"
  /\ stream.state \in {"ended", "errored"}
  /\ stream' = [stream EXCEPT !.state = "closed"]
  /\ wss' = [wss EXCEPT ![stream.ws] = removeCallback(@)]
  /\ pc' = "done"
  /\ UNCHANGED <<ep, req, cookies, procs, dl, res, archive, item, io>>

(***************************************************************************)
(* The ZIP archive (archiver).  archive.file() and archive.append() only    *)
(* queue an entry; the source is read later, in queue order.                *)
(***************************************************************************)
\* name: the entry's name in the archive; src, ws: the file it is read from;
\* proc: the process whose stdout it is read from; i: the iteration of the
\* handler's loop that queued it.
MkEntry(kind, name, src, ws, proc, i) ==
  [kind |-> kind, name |-> name, src |-> src, ws |-> ws, proc |-> proc,
   item |-> i, state |-> "queued"]

\* An archive that puts a new entry in front of the queued ones.
EnqueueFirst(a, e) == <<e>> \o a

\* archive.file(path, {name}) / archive.append(source, {name})
Enqueue(a, e) == Append(a, e)

\* `${i}` for the indices of a batch.
DecimalDigits == <<"0", "1", "2", "3", "4", "5", "6", "7", "8", "9">>
IndexString(i) ==
  IF i < 10 THEN <<DecimalDigits[i + 1]>>
  ELSE <<DecimalDigits[(i \div 10) + 1], DecimalDigits[(i % 10) + 1]>>

Queued(a) == {i \in 1..Len(a) : a[i].state = "queued"}

HasFile(w, name) == \E i \in 1..Len(w.files) : w.files[i].name = name

\* The archive reads the source of its first queued entry.  A file that no
\* longer exists is dropped; the stdout of a process is read to its end.
ArchiveConsume ==
  /\ pc \notin {"idle", "done"}
  /\ Queued(archive) # {}
  /\ LET i == CHOOSE k \in Queued(archive) : \A j \in Queued(archive) : k <= j
         e == archive[i]
     IN /\ e.kind = "stdout" => ~procs[e.proc].running
        /\ archive' = [archive EXCEPT ![i].state =
                         IF e.kind = "file" /\ ~(wss[e.ws].state = "live" /\ HasFile(wss[e.ws], e.src))
                         THEN "failed" ELSE "consumed"]
  /\ UNCHANGED <<pc, ep, req, cookies, procs, wss, dl, res, stream, item, io>>

(***************************************************************************)
(* POST /api/multi-downloads                                                *)
(***************************************************************************)
\* optional().isString()
OptionalString(v) == v = Undefined \/ IsString(v)

\* The validation chain: an array of 1..20 elements whose urls are all
\* admitted (the strings of the model are shorter than the length limits).
ValidBatch(videos) ==
  /\ videos.array
  /\ Len(videos.items) >= 1
  /\ Len(videos.items) <= MaxVideos
  /\ \A i \in 1..Len(videos.items) :
       /\ isValidVideoUrl(videos.items[i].url)
       /\ OptionalString(videos.items[i].quality)
       /\ OptionalString(videos.items[i].title)

\* Revision B: baseArgs of the loop body.
BatchBaseArgs(url, cookiesFile) == CookieArgs(cookiesFile) \o <<NO_PLAYLIST, url>>

\* Revision B: formatArg of the loop body.
BatchFormatArg(url, quality, info) ==
  IF Includes(url, D_facebook) THEN BEST_AVC
  ELSE IF Includes(url, D_instagram) THEN BEST_MP4
  ELSE IF Truthy(quality) THEN
    (IF IsYouTube(url)
     THEN LET f == FindFormat(info, quality)
          IN IF f # NoFormat /\ Truthy(f.vcodec) /\ f.acodec = NONE
             THEN BEST_AVC ELSE quality
     ELSE quality)
  ELSE BEST_AVC

\* Revision B: safeTitle of the loop body.
SafeTitle(title, info, i) ==
  IF Truthy(title) THEN sanitizeFilename(title)
  ELSE IF Truthy(info.title) THEN sanitizeFilename(info.title)
  ELSE Uuid(i)

Video(i) == req.videos.items[i]

ZipFile == MkFile(UuidV4 \o <<".zip">>, 100000, FALSE, FALSE)

\* Revision B: the loop body up to its first await, for element i.
BatchProbe(i, ps) ==
  /\ item' = i
  /\ procs' = Append(ps, MkProc("probe",
                                BatchBaseArgs(Video(i).url,
                                              getCookiesFile("B", Video(i).url, cookies)),
                                FALSE))
  /\ pc' = "batch_probing"

ReceiveMulti(rev) ==
  /\ pc = "idle"
  /\ \E videos \in ReqBatches \cup {Oversized} :
       /\ ep' = [route |-> "multi", rev |-> rev]
       /\ req' = [NoRequest EXCEPT !.videos = videos]
       /\ IF ~ValidBatch(videos)
          THEN /\ res' = Answer(res, 400)
               /\ pc' = "done"
               /\ UNCHANGED <<procs, wss, dl, item>>
          ELSE /\ UNCHANGED res
               /\ IF rev = "B"
                  THEN /\ wss' = <<NewWorkspace>>
                       /\ item' = 1
                       /\ procs' = Append(procs,
                            MkProc("probe",
                                   BatchBaseArgs(videos.items[1].url,
                                                 getCookiesFile("B", videos.items[1].url, cookies)),
                                   FALSE))
                       /\ pc' = "batch_probing"
                       /\ UNCHANGED dl
                  ELSE /\ item' = 1
                       /\ CallDownload("A", videos.items[1].url, videos.items[1].quality,
                                       Undefined, <<NewWorkspace>>)
  /\ UNCHANGED <<cookies, stream, archive, io>>

\* Revision B: the catch block of the handler.
BatchCatch ==
  /\ wss' = [wss EXCEPT ![1] = removeCallback(@)]
  /\ res' = Answer(res, 500)
  /\ pc' = "done"

\* Revision B: await ytDlpWrap.getVideoInfo(baseArgs) settles.
BatchProbeSettles ==
  /\ pc = "batch_probing"
  /\ \/ \E info \in Infos :
          LET v == Video(item)
              base == BatchBaseArgs(v.url, getCookiesFile("B", v.url, cookies))
              safeTitle == SafeTitle(v.title, info, item)
          IN /\ dl' = [dl EXCEPT !.safeFilename = safeTitle]
             /\ procs' = Append(Terminated(procs),
                                MkProc("download",
                                       base \o <<OPT_F, BatchFormatArg(v.url, v.quality, info),
                                                 MERGE, MP4, RECODE, MP4, OPT_O,
                                                 safeTitle \o X_mp4>>,
                                       FALSE))
             /\ pc' = "batch_downloading"
             /\ UNCHANGED <<wss, res>>
     \/ /\ procs' = Terminated(procs)
        /\ BatchCatch
        /\ UNCHANGED dl
  /\ UNCHANGED <<ep, req, cookies, stream, archive, item, io>>

\* Revision B: await ytDlpWrap.execPromise(...) settles, then the rest of the
\* loop body and the start of the next iteration.
BatchExecSettles ==
  /\ pc = "batch_downloading"
  /\ \/ \E files \in ProducedFiles(dl.safeFilename) :
          LET filename == dl.safeFilename \o X_mp4
              w == [wss[1] EXCEPT !.files = @ \o files]
          IN IF ~HasFile(w, filename)
             THEN /\ wss' = [wss EXCEPT ![1] = removeCallback(w)]
                  /\ res' = Answer(res, 500)
                  /\ procs' = Terminated(procs)
                  /\ pc' = "done"
                  /\ UNCHANGED <<archive, item, io>>
             ELSE /\ wss' = [wss EXCEPT ![1] = w]
                  /\ archive' = Enqueue(archive, MkEntry("file", filename, filename, 1, 0, item))
                  /\ io' = Emit(io, Everyone, RoundPercent(item, Len(req.videos.items)))
                  /\ UNCHANGED res
                  /\ IF item < Len(req.videos.items)
                     THEN BatchProbe(item + 1, Terminated(procs))
                     ELSE /\ procs' = Terminated(procs)
                          /\ pc' = "finalizing"
                          /\ UNCHANGED item
     \/ /\ procs' = Terminated(procs)
        /\ BatchCatch
        /\ UNCHANGED <<archive, item, io>>
  /\ UNCHANGED <<ep, req, cookies, dl, stream>>

\* Revision P: the next iteration of the loop, or archive.finalize().
NextVideo ==
  IF item < Len(req.videos.items)
  THEN /\ item' = item + 1
       /\ CallDownload("A", Video(item + 1).url, Video(item + 1).quality, Undefined, wss)
  ELSE /\ pc' = "finalizing"
       /\ UNCHANGED <<item, dl, procs, wss>>

\* Revision P: downloadWithProgress resolved; the entry is queued and the
\* cleanup capability invoked in the same turn.
MultiResolved ==
  /\ pc = "resolved"
  /\ ep.route = "multi"
  /\ LET v == Video(item)
         safeName == sanitizeFilename(IF Truthy(v.title) THEN v.title ELSE dl.result.name)
     IN archive' = Enqueue(archive,
                           MkEntry("file", safeName \o X_mp4, dl.result.name, dl.ws, 0,
                                   item))
  /\ IF item < Len(req.videos.items)
     THEN /\ item' = item + 1
          /\ CallDownload("A", Video(item + 1).url, Video(item + 1).quality, Undefined,
                          [wss EXCEPT ![dl.ws] = removeCallback(@)])
     ELSE /\ wss' = [wss EXCEPT ![dl.ws] = removeCallback(@)]
          /\ pc' = "finalizing"
          /\ UNCHANGED <<item, dl, procs>>
  /\ UNCHANGED <<ep, req, cookies, res, stream, io>>

\* Revision P: downloadWithProgress rejected; a text entry takes its place.
MultiRejected ==
  /\ pc = "rejected"
  /\ ep.route = "multi"
  /\ archive' = Enqueue(archive, MkEntry("text", <<"f","a","i","l","e","d","_">> \o IndexString(item - 1) \o X_txt,
                                         <<>>, 0, 0, item))
  /\ NextVideo
  /\ UNCHANGED <<ep, req, cookies, res, stream, io>>

\* Every entry has been read.  Revision B: the output file closes and the
\* archive is piped to the response.  Revision P: the archive, piped to the
\* response, ends and its "end" listener releases the batch workspace.
ArchiveEnd ==
  /\ pc = "finalizing"
  /\ ep.route = "multi"
  /\ Queued(archive) = {}
  /\ IF ep.rev = "B"
     THEN /\ UNCHANGED res
          /\ io' = Emit(io, Everyone, 100)
          /\ stream' = [state |-> "open", sent |-> 0, file |-> ZipFile, ws |-> 1]
          /\ pc' = "streaming"
          /\ UNCHANGED wss
     ELSE /\ res' = [WriteHead(res) EXCEPT !.ended = TRUE]
          /\ wss' = [wss EXCEPT ![1] = removeCallback(@)]
          /\ pc' = "done"
          /\ UNCHANGED <<stream, io>>
  /\ UNCHANGED <<ep, req, cookies, procs, dl, archive, item>>

(***************************************************************************)
(* The streaming revision S: POST /api/info, GET /api/download and          *)
(* POST /api/download-playlist                                              *)
(***************************************************************************)
\* /instagram\.com/i.test(url)
isInstagramUrl(url) == IncludesNoCase(url, D_instagram)

STDOUT == <<"-">>

\* The most chunks of standard output the model follows per process.
MaxPipeChunks == 2

StreamInfoArgs(url, cookiesFile) ==
  (IF ~isInstagramUrl(url) THEN <<NO_PLAYLIST>> ELSE <<>>)
    \o CookieArgs(cookiesFile) \o <<url>>

\* The arguments of the process whose standard output is the video.
StreamArgs(url, quality, info) ==
  LET selectedFormat == IF Truthy(quality) THEN FindFormat(info, quality) ELSE NoFormat
  IN (IF ~isInstagramUrl(url) THEN <<NO_PLAYLIST>> ELSE <<>>)
       \o <<OPT_F>>
       \o (IF selectedFormat # NoFormat /\ selectedFormat.acodec # NONE
              /\ selectedFormat.vcodec # NONE
           THEN <<quality>>
           ELSE IF Truthy(quality) THEN <<quality, MERGE, MP4>>
           ELSE <<BEST_MP4, MERGE, MP4>>)
       \o <<OPT_O, STDOUT, url>>

ReceiveInfo ==
  /\ pc = "idle"
  /\ \E url \in ReqUrls :
       /\ ep' = [route |-> "info", rev |-> "S"]
       /\ req' = [NoRequest EXCEPT !.url = url]
       /\ IF ~isValidVideoUrl(url)
          THEN /\ res' = Answer(res, 400)
               /\ pc' = "done"
               /\ UNCHANGED procs
          ELSE /\ procs' = Append(procs,
                                  MkProc("probe",
                                         StreamInfoArgs(url, getCookiesFile("S", url, cookies)),
                                         FALSE))
               /\ pc' = "info_probing"
               /\ UNCHANGED res
  /\ UNCHANGED <<cookies, wss, dl, stream, archive, item, io>>

\* await ytDlpWrap.getVideoInfo(infoArgs) of POST /api/info settles.
InfoSettles ==
  /\ pc = "info_probing"
  /\ procs' = Terminated(procs)
  /\ \/ res' = Answer(res, 200)
     \/ res' = Answer(res, 500)
  /\ pc' = "done"
  /\ UNCHANGED <<ep, req, cookies, wss, dl, stream, archive, item, io>>

ReceiveDownload ==
  /\ pc = "idle"
  /\ \E url \in ReqUrls, quality \in ReqQualities :
       /\ ep' = [route |-> "download", rev |-> "S"]
       /\ req' = [NoRequest EXCEPT !.url = url, !.quality = quality]
       /\ IF ~isValidVideoUrl(url)
          THEN /\ res' = Answer(res, 400)
               /\ pc' = "done"
               /\ UNCHANGED procs
          ELSE /\ procs' = Append(procs,
                                  MkProc("probe",
                                         StreamInfoArgs(url, getCookiesFile("S", url, cookies)),
                                         FALSE))
               /\ pc' = "download_probing"
               /\ UNCHANGED res
  /\ UNCHANGED <<cookies, wss, dl, stream, archive, item, io>>

\* await getVideoInfo of GET /api/download settles: the download process is
\* spawned with its standard output piped to the response.
DownloadProbeSettles ==
  /\ pc = "download_probing"
  /\ \/ \E info \in Infos :
          /\ procs' = Append(Terminated(procs),
                             MkProc("download", StreamArgs(req.url, req.quality, info), TRUE))
          /\ pc' = "piping"
          /\ UNCHANGED res
     \/ /\ procs' = Terminated(procs)
        /\ res' = Answer(res, 500)
        /\ pc' = "done"
  /\ UNCHANGED <<ep, req, cookies, wss, dl, stream, archive, item, io>>

\* The process writes a chunk to its standard output: it reaches the response.
PipeData ==
  /\ pc = "piping"
  /\ procs[Len(procs)].running
  /\ res.bytes < MaxPipeChunks
  /\ res' = [WriteHead(res) EXCEPT !.bytes = @ + 1]
  /\ UNCHANGED <<pc, ep, req, cookies, procs, wss, dl, stream, archive, item, io>>

\* The process exits (whatever its exit code): its standard output ends and
\* with it the response.
PipeExit ==
  /\ pc = "piping"
  /\ procs' = Terminated(procs)
  /\ res' = [WriteHead(res) EXCEPT !.ended = TRUE]
  /\ pc' = "done"
  /\ UNCHANGED <<ep, req, cookies, wss, dl, stream, archive, item, io>>

\* The loop body of the playlist handler up to its await, for element i.
PlaylistProbe(i, videos, ps) ==
  /\ item' = i
  /\ procs' = Append(ps, MkProc("probe",
                                StreamInfoArgs(videos.items[i].url,
                                               getCookiesFile("S", videos.items[i].url, cookies)),
                                FALSE))
  /\ pc' = "playlist_probing"

ReceivePlaylist ==
  /\ pc = "idle"
  /\ \E videos \in ReqBatches :
       /\ ep' = [route |-> "playlist", rev |-> "S"]
       /\ req' = [NoRequest EXCEPT !.videos = videos]
       /\ IF ~videos.array \/ Len(videos.items) = 0
          THEN /\ res' = Answer(res, 400)
               /\ pc' = "done"
               /\ UNCHANGED <<procs, item>>
          ELSE /\ PlaylistProbe(1, videos, procs)
               /\ UNCHANGED res
  /\ UNCHANGED <<cookies, wss, dl, stream, archive, io>>

T_video == <<"v","i","d","e","o">>
T_error == <<"e","r","r","o","r","_">>

\* await getVideoInfo of the loop body settles: the download process is
\* spawned and its standard output appended to the archive, or the catch
\* block appends a text entry; then the next iteration, or archive.finalize().
PlaylistProbeSettles ==
  /\ pc = "playlist_probing"
  /\ LET v == Video(item)
         ps == Terminated(procs)
     IN \/ \E info \in Infos :
             LET started == Append(ps, MkProc("download",
                                              StreamArgs(v.url, v.quality, info), TRUE))
             IN /\ archive' = Enqueue(archive,
                                      MkEntry("stdout",
                                              sanitizeFilename(IF Truthy(v.title) THEN v.title
                                                               ELSE T_video) \o X_mp4,
                                              <<>>, 0, Len(started), item))
                /\ IF item < Len(req.videos.items)
                   THEN PlaylistProbe(item + 1, req.videos, started)
                   ELSE /\ procs' = started
                        /\ pc' = "finalizing"
                        /\ UNCHANGED item
        \/ /\ archive' = Enqueue(archive,
                                 MkEntry("text", T_error \o IndexString(item) \o X_txt,
                                         <<>>, 0, 0, item))
           /\ IF item < Len(req.videos.items)
              THEN PlaylistProbe(item + 1, req.videos, ps)
              ELSE /\ procs' = ps
                   /\ pc' = "finalizing"
                   /\ UNCHANGED item
  /\ UNCHANGED <<ep, req, cookies, wss, dl, res, stream, io>>

\* A process whose standard output feeds the archive exits.
PlaylistProcessExit ==
  /\ ep.route = "playlist"
  /\ \E i \in 1..Len(procs) :
       /\ procs[i].piped
       /\ procs[i].running
       /\ procs' = [procs EXCEPT ![i].running = FALSE]
  /\ UNCHANGED <<pc, ep, req, cookies, wss, dl, res, stream, archive, item, io>>

\* Every entry has been read: the archive, piped to the response, ends.
PlaylistEnd ==
  /\ pc = "finalizing"
  /\ ep.route = "playlist"
  /\ Queued(archive) = {}
  /\ res' = [WriteHead(res) EXCEPT !.ended = TRUE]
  /\ pc' = "done"
  /\ UNCHANGED <<ep, req, cookies, procs, wss, dl, stream, archive, item, io>>

Next ==
  \/ \E rev \in {"A", "B", "C"} : ReceiveDownloads(rev)
  \/ MetaSettles
  \/ EntrySettles
  \/ ProbeSettles
  \/ ProcessError
  \/ ProcessClose
  \/ DownloadsCatch
  \/ DownloadsResume
  \/ StreamData
  \/ StreamEnd
  \/ StreamError
  \/ ClientAbort
  \/ ServerCrash
  \/ StreamClose
  \/ \E rev \in {"B", "P"} : ReceiveMulti(rev)
  \/ BatchProbeSettles
  \/ BatchExecSettles
  \/ MultiResolved
  \/ MultiRejected
  \/ ArchiveConsume
  \/ ArchiveEnd
  \/ ReceiveInfo
  \/ InfoSettles
  \/ ReceiveDownload
  \/ DownloadProbeSettles
  \/ PipeData
  \/ PipeExit
  \/ ReceivePlaylist
  \/ PlaylistProbeSettles
  \/ PlaylistProcessExit
  \/ PlaylistEnd

Spec == Init /\ [][Next]_vars

(***************************************************************************)
(* The sanitizer on its own: downloadWithProgress between the return of    *)
(* the metadata probe and the computation of safeFilename, for titles that  *)
(* exercise every step of sanitizeFilename (unsafe characters, runs,        *)
(* underscores at the edges, more than MaxNameLen characters).              *)
(***************************************************************************)
\* A letter, a digit, the three kept punctuation characters and an unsafe one.
SanChars == {"a", "7", "_", "-", ".", " "}

\* The longest suffix of a title the model enumerates character by character.
MaxTail == 3

Tails == UNION {[1..n -> SanChars] : n \in 0..MaxTail}

SanHeads == {<<>>, <<"_">>, <<" ">>, <<"a">>}

\* k safe characters.
Pad(k) == [i \in 1..k |-> "Z"]

\* No padding, or enough of it for the suffix to straddle position MaxNameLen.
PadLens == {0} \cup ((MaxNameLen - MaxTail)..MaxNameLen)

\* info.title as the probe returns it: a string, or no title at all.
SanTitles ==
  {h \o Pad(k) \o t : h \in SanHeads, k \in PadLens, t \in Tails} \cup {Undefined}

\* const info = await ytDlpWrap.getVideoInfo(infoArgs) has returned.
SanInit ==
  /\ pc = "probed"
  /\ ep = [route |-> "-", rev |-> "-"]
  /\ req = NoRequest
  /\ cookies = {}
  /\ procs = <<>>
  /\ wss = <<>>
  /\ dl \in {[NoCall EXCEPT !.state = "probing", !.title = t] : t \in SanTitles}
  /\ res = NoResponse
  /\ stream = NoStream
  /\ archive = <<>>
  /\ item = 0
  /\ io = <<>>

\* const safeFilename = sanitizeFilename(info.title || uuidv4())
Sanitize ==
  /\ pc = "probed"
  /\ dl' = [dl EXCEPT !.safeFilename = SafeFilename([title |-> dl.title])]
  /\ pc' = "sanitized"
  /\ UNCHANGED <<ep, req, cookies, procs, wss, res, stream, archive, item, io>>

SanNext == Sanitize

SanSpec == SanInit /\ [][SanNext]_vars

(***************************************************************************)
(* The cookie resolver on its own: a handler calls getCookiesFile(url), and *)
(* between two calls a bundle file may be created or deleted on disk.       *)
(***************************************************************************)
\* Admitted urls that name another platform in their query or path.
U_x_ref == U_x \o <<"?","r","e","f","=">> \o D_facebook
U_youtube_path == U_youtube \o <<"&","u","=","/">> \o D_instagram \o <<"/","p">>

\* The urls the resolver is called with.
CookieUrls == (ReqUrls \ {Undefined}) \cup {U_x_ref, U_youtube_path}

CookieInit ==
  /\ pc = "resolving"
  /\ ep \in {[route |-> "-", rev |-> r] : r \in {"A", "B", "C", "S"}}
  /\ req \in {[NoRequest EXCEPT !.url = u] : u \in CookieUrls}
  /\ cookies \in SUBSET CookieFiles
  /\ procs = <<>>
  /\ wss = <<>>
  /\ dl = NoCall
  /\ res = NoResponse
  /\ stream = NoStream
  /\ archive = <<>>
  /\ item = 0
  /\ io = <<>>

\* const cookiesFile = getCookiesFile(url)
Resolve ==
  /\ pc = "resolving"
  /\ dl' = [dl EXCEPT !.url = req.url,
                      !.cookiesFile = getCookiesFile(ep.rev, req.url, cookies)]
  /\ pc' = "resolved"
  /\ UNCHANGED <<ep, req, cookies, procs, wss, res, stream, archive, item, io>>

\* A bundle file is created or deleted; the handler is then called again.
TouchBundle ==
  /\ pc = "resolved"
  /\ \E f \in CookieFiles :
       cookies' = IF f \in cookies THEN cookies \ {f} ELSE cookies \cup {f}
  /\ pc' = "resolving"
  /\ UNCHANGED <<ep, req, procs, wss, dl, res, stream, archive, item, io>>

CookieNext == Resolve \/ TouchBundle

CookieSpec == CookieInit /\ [][CookieNext]_vars

(***************************************************************************)
(* The plan construction on its own: downloadWithProgress is called twice   *)
(* for the same url and quality, the probe returns the same formats; the    *)
(* title it returns, the value of uuidv4() and the cookie bundles on disk   *)
(* may differ between the two runs.                                         *)
(***************************************************************************)
\* A second value uuidv4() can return.
UuidV4b == <<"9","b","7","d","-","4","c","0","1">>
Uuids == {UuidV4, UuidV4b}

\* The number of runs compared.
PlanRuns == 2

PlanInit ==
  /\ pc = "planning"
  /\ ep \in {[route |-> "downloads", rev |-> r] : r \in {"A", "B", "C"}}
  /\ req \in {[NoRequest EXCEPT !.url = u, !.quality = q] :
                u \in {v \in ReqUrls : isValidVideoUrl(v)}, q \in ReqQualities}
  /\ cookies \in CookieStates
  /\ procs = <<>>
  /\ wss = <<>>
  /\ dl = NoCall
  /\ res = NoResponse
  /\ stream = NoStream
  /\ archive = <<>>
  /\ item = 0
  /\ io = <<>>

\* One run of downloadWithProgress up to the start of its first attempt:
\* getCookiesFile, the probe, sanitizeFilename(info.title || uuidv4()), args.
Plan ==
  /\ pc = "planning"
  /\ Len(procs) < PlanRuns
  /\ \E t \in Titles, u \in Uuids :
       LET info == [title |-> t, formats |-> StdFormats]
           safe == sanitizeFilename(IF Truthy(t) THEN t ELSE u)
           cookiesFile == getCookiesFile(ep.rev, req.url, cookies)
       IN procs' = Append(procs,
                          MkProc("download",
                                 BuildArgs(ep.rev, req.url, req.quality,
                                           cookiesFile, info, safe),
                                 FALSE))
  /\ UNCHANGED <<pc, ep, req, cookies, wss, dl, res, stream, archive, item, io>>

\* Between the runs the cookie bundles are installed or removed.
BundleChange ==
  /\ pc = "planning"
  /\ Len(procs) >= 1
  /\ Len(procs) < PlanRuns
  /\ cookies' \in CookieStates \ {cookies}
  /\ UNCHANGED <<pc, ep, req, procs, wss, dl, res, stream, archive, item, io>>

PlanNext == Plan \/ BundleChange

PlanSpec == PlanInit /\ [][PlanNext]_vars

(***************************************************************************)
(* The url validator on its own: the validation chain of a handler applies  *)
(* isValidVideoUrl to req.body.url, for well-formed urls and for values     *)
(* that differ from one in a single part.                                   *)
(***************************************************************************)
UrlLeads == { <<>>, <<" ">> }
UrlSchemes ==
  Schemes \cup { <<"f","t","p",":">>, <<"H","t","t","p","s",":">>, <<"h","t","t","p","s">> }
UrlSlashes == { <<"/","/">>, <<"/">> }
UrlLabels ==
  { <<>>, <<"w","w","w",".">>, <<"m","-","1",".">>, <<"a",".","b",".">>, <<"w","_","w",".">>,
    <<".">>, <<"w","w","w">> }
UrlHosts ==
  Hosts \cup { <<"e","v","i","l","y","o","u","t","u","b","e",".","c","o","m">>,
               <<"y","o","u","t","u","b","e",".","c","o","m",".","e","v","i","l",".","i","o">>,
               <<"Y","O","U","T","U","B","E",".","C","O","M">>,
               <<"y","o","u","t","u","b","e",".","c","o">>,
               <<"e","v","i","l",".","e","x","a","m","p","l","e">> }
UrlTails ==
  { <<>>, <<"/">>, <<"/","w","a","t","c","h","?","v","=","a","b","c">>,
    <<":","4","4","3","/">>,
    <<"/","x",".","c","o","m","/">> }

\* The values of req.body.url the model validates.
UrlInputs ==
  { ld \o sch \o sl \o lab \o h \o tl :
      ld \in UrlLeads, sch \in UrlSchemes, sl \in UrlSlashes, lab \in UrlLabels,
      h \in UrlHosts, tl \in UrlTails }
    \cup {Undefined, Null}

UrlInit ==
  /\ pc = "validating"
  /\ ep = [route |-> "downloads", rev |-> "B"]
  /\ req \in {[NoRequest EXCEPT !.url = u] : u \in UrlInputs}
  /\ cookies = {}
  /\ procs = <<>>
  /\ wss = <<>>
  /\ dl = NoCall
  /\ res = NoResponse
  /\ stream = NoStream
  /\ archive = <<>>
  /\ item = 0
  /\ io = <<>>

\* body("url").custom(isValidVideoUrl); a failed validation answers 400.
Validate ==
  /\ pc = "validating"
  /\ IF isValidVideoUrl(req.url)
     THEN pc' = "admitted" /\ UNCHANGED res
     ELSE pc' = "done" /\ res' = Answer(res, 400)
  /\ UNCHANGED <<ep, req, cookies, procs, wss, dl, stream, archive, item, io>>

UrlNext == Validate

UrlSpec == UrlInit /\ [][UrlNext]_vars

(***************************************************************************)
(* The orchestrator on its own: one call of downloadWithProgress from the   *)
(* start of its probe to its settlement, with the "progress", "error" and   *)
(* "close" events of its attempts.  Every process the call starts            *)
(* terminates: the probe settles, an attempt ends with "error" or "close".  *)
(***************************************************************************)
\* The percents an attempt reports: an intermediate one and the final one.
ProgressValues == {50, 100}

\* The most progress events of a call the model follows.
MaxProgress == 2

\* The "progress" event of the running attempt.
ProcessProgress ==
  /\ pc = "downloading"
  /\ Len(io) < MaxProgress
  /\ \E percent \in ProgressValues : io' = EmitIf(io, dl.downloadId, percent)
  /\ UNCHANGED <<pc, ep, req, cookies, procs, wss, dl, res, stream, archive, item>>

\* POST /api/downloads calls with the quality of the request, which revisions
\* B and C require; revision A and the batch handler pass it as it came.
DwpInit ==
  /\ pc = "probing"
  /\ ep \in {[route |-> "downloads", rev |-> r] : r \in {"A", "B", "C"}}
  /\ req \in {[NoRequest EXCEPT !.url = u, !.quality = q, !.downloadId = d] :
                u \in {v \in ReqUrls : isValidVideoUrl(v)}, q \in ReqQualities,
                d \in ReqIds}
  /\ ep.rev # "A" => Truthy(req.quality)
  /\ cookies \in CookieStates
  /\ wss = <<NewWorkspace>>
  /\ dl = [NoCall EXCEPT !.rev = ep.rev, !.state = "probing", !.ws = 1,
                          !.url = req.url, !.quality = req.quality,
                          !.downloadId = req.downloadId,
                          !.cookiesFile = getCookiesFile(ep.rev, req.url, cookies)]
  /\ procs = <<MkProc("probe", InfoArgs(req.url, dl.cookiesFile), FALSE)>>
  /\ res = NoResponse
  /\ stream = NoStream
  /\ archive = <<>>
  /\ item = 0
  /\ io = <<>>

DwpNext == ProbeSettles \/ ProcessProgress \/ ProcessError \/ ProcessClose

DwpSpec ==
  /\ DwpInit
  /\ [][DwpNext]_vars
  /\ WF_vars(ProbeSettles)
  /\ WF_vars(ProcessError \/ ProcessClose)

(***************************************************************************)
(* The delivery on its own: POST /api/downloads from the return of          *)
(* downloadWithProgress with a DownloadResult to the end of the request.    *)
(* The handler resumes; a read stream that is piped to an open response     *)
(* keeps delivering its chunks and its "end"; a stream that ended or failed *)
(* emits "close".  When the client leaves, pipe() unpipes the stream.       *)
(***************************************************************************)
DeliveryInit ==
  /\ pc = "resolved"
  /\ ep \in {[route |-> "downloads", rev |-> r] : r \in {"A", "B", "C"}}
  /\ req \in {[NoRequest EXCEPT !.url = u, !.quality = q, !.downloadId = d] :
                u \in {v \in ReqUrls : isValidVideoUrl(v)},
                q \in {v \in ReqQualities : Truthy(v)}, d \in ReqIds}
  /\ cookies = {}
  /\ \E info \in Infos : \E files \in ProducedFiles(SafeFilename(info)) :
       LET safe == SafeFilename(info)
           f == LookupArtifact(ep.rev, files, safe)
           args == BuildArgs(ep.rev, req.url, req.quality, Null, info, safe)
       IN /\ f # NoFile
          /\ ~RejectedOnClose(ep.rev, f)
          /\ wss = <<[NewWorkspace EXCEPT !.files = files]>>
          /\ dl = [NoCall EXCEPT !.rev = ep.rev, !.state = "ready", !.ws = 1,
                                  !.url = req.url, !.quality = req.quality,
                                  !.downloadId = req.downloadId,
                                  !.title = info.title, !.safeFilename = safe,
                                  !.args = args, !.result = f]
          /\ procs = <<[MkProc("probe", InfoArgs(req.url, Null), FALSE)
                          EXCEPT !.running = FALSE],
                       [MkProc("download", args, FALSE) EXCEPT !.running = FALSE]>>
  /\ res = NoResponse
  /\ stream = NoStream
  /\ archive = <<>>
  /\ item = 0
  /\ io = <<>>

DeliveryNext ==
  \/ DownloadsResume
  \/ StreamData
  \/ StreamEnd
  \/ StreamError
  \/ ClientAbort
  \/ ServerCrash
  \/ StreamClose

DeliverySpec ==
  /\ DeliveryInit
  /\ [][DeliveryNext]_vars
  /\ WF_vars(DownloadsResume)
  /\ WF_vars(StreamData \/ StreamEnd)
  /\ WF_vars(StreamClose)

(***************************************************************************)
(* The close handler on its own: an attempt of downloadWithProgress is      *)
(* running for a title whose basename may hold dots, and exits with code 0. *)
(***************************************************************************)
T_dotted == <<"M","y",".","f","i","n","a","l">>
T_version == <<"v","1",".","t","e","m","p","o">>
T_unsafe == <<"a","/","b",".","c">>

CloseTitles == {T_my_video, T_dotted, T_version, T_unsafe, Undefined}

CloseInit ==
  /\ pc = "downloading"
  /\ ep \in {[route |-> "downloads", rev |-> r] : r \in {"A", "B", "C"}}
  /\ req \in {[NoRequest EXCEPT !.url = u, !.quality = q] :
                u \in {v \in ReqUrls : isValidVideoUrl(v)},
                q \in {v \in ReqQualities : Truthy(v)}}
  /\ cookies = {}
  /\ \E title \in CloseTitles :
       LET info == [title |-> title, formats |-> StdFormats]
           safe == SafeFilename(info)
           args == BuildArgs(ep.rev, req.url, req.quality, Null, info, safe)
       IN /\ dl = [NoCall EXCEPT !.rev = ep.rev, !.state = "downloading", !.ws = 1,
                                  !.url = req.url, !.quality = req.quality,
                                  !.title = title, !.safeFilename = safe,
                                  !.args = args]
          /\ procs = <<[MkProc("probe", InfoArgs(req.url, Null), FALSE)
                          EXCEPT !.running = FALSE],
                       MkProc("download", args, FALSE)>>
  /\ wss = <<NewWorkspace>>
  /\ res = NoResponse
  /\ stream = NoStream
  /\ archive = <<>>
  /\ item = 0
  /\ io = <<>>

CloseNext == ProcessClose

CloseSpec == CloseInit /\ [][CloseNext]_vars

(***************************************************************************)
(* Properties                                                               *)
(***************************************************************************)
\* The request passed the admission checks the specification requires of its
\* endpoint.
Admitted ==
  CASE ep.route \in {"downloads", "info", "download"} -> isValidVideoUrl(req.url)
    [] ep.route \in {"multi", "playlist"} -> ValidBatch(req.videos)
    [] OTHER -> TRUE

\* The index of the last metadata probe started, 0 if none.
LastProbe ==
  LET probes == {i \in 1..Len(procs) : procs[i].kind = "probe"}
  IN IF probes = {} THEN 0 ELSE CHOOSE i \in probes : \A j \in probes : j <= i

\* The download processes started since the last metadata probe: the
\* attempts of the current download.
Attempts == {i \in (LastProbe + 1)..Len(procs) : procs[i].kind = "download"}

\* C1 (admission gate): for a request that fails admission (its url, or the
\* url of a batch element, is rejected by isValidVideoUrl, or the batch is not
\* an array of 1..20 elements) no external process is ever started.
C1_AdmissionGate ==
  (pc # "idle" /\ ~Admitted) => procs = <<>>

\* C2 (batch failure isolation): a batch of N admitted videos completes with a
\* success status and an archive of exactly N entries, whichever elements
\* fail.
C2_BatchFailureIsolation ==
  (ep.route = "multi" /\ ValidBatch(req.videos) /\ pc = "done")
    => (res.status = 200 /\ Len(archive) = Len(req.videos.items))

\* C3 (corrupt artifacts are never served): no byte of an artifact that is
\* below the minimum size, lacks the container signature or holds markup is
\* sent under a success status.
C3_CorruptNeverServed ==
  ep.route = "downloads"
    => ~(stream.state # "none" /\ Corrupt(stream.file)
         /\ res.status = 200 /\ res.bytes > 0)

\* C4 (validation before release): the standard output of an external process
\* is never connected to the response or to the archive, and no byte reaches
\* the response while a download process is still running.
C4_ValidationBeforeRelease ==
  \A i \in 1..Len(procs) :
    /\ ~procs[i].piped
    /\ (procs[i].kind = "download" /\ procs[i].running) => res.bytes = 0

\* C5 (at most one retry): a call of downloadWithProgress starts the download
\* process at most twice.
C5_AtMostOneRetry ==
  dl.state # "none" => Cardinality(Attempts) <= 2

\* C5, its case: the fallback attempt was started, failed, and the call
\* rejected.
C5_Witness ==
  /\ dl.state = "failed"
  /\ dl.triedFallback
  /\ Cardinality(Attempts) = 2
  /\ pc = "rejected"

\* C6 (fallback substitution): the argument list of the fallback attempt is
\* the first attempt's list with the format expression after -f replaced by
\* the best-compatible expression; it is never the failed list again.
C6_FallbackSubstitution ==
  (dl.triedFallback /\ Cardinality(Attempts) = 2)
    => LET first == procs[LastProbe + 1].args
           second == procs[LastProbe + 2].args
       IN /\ second = SetAfter(first, IndexOfF(first), BEST_AVC)
          /\ second # first

\* C7 (cleanup on failure): when a failed call of downloadWithProgress reaches
\* its caller, the workspace of the call has been destroyed.
C7_CleanupOnFailure ==
  (pc = "rejected" /\ dl.state = "failed") => wss[dl.ws].state = "destroyed"

\* The request is over: answered, abandoned by the client, or ended with the
\* server process.
Over == pc \in {"done", "abandoned", "crashed"}

\* C8 (exactly-once release): for a DownloadResult returned to the
\* /api/downloads handler the cleanup capability is invoked at most once while
\* the request runs and exactly once when it is over.
C8_ExactlyOnceRelease ==
  (ep.route = "downloads" /\ dl.state = "ready")
    => /\ wss[dl.ws].calls <= 1
       /\ Over => wss[dl.ws].calls = 1

\* C9 (release only after consumption): the workspace of a DownloadResult is
\* live as long as the response stream is reading the artifact or the archive
\* has not yet read the entry queued from it.
C9_ReleaseAfterConsumption ==
  /\ (ep.route = "downloads" /\ stream.state = "open")
       => wss[stream.ws].state = "live"
  /\ (ep.route = "multi" /\ ep.rev = "P")
       => \A i \in 1..Len(archive) :
            (archive[i].kind = "file" /\ archive[i].state = "queued")
              => wss[archive[i].ws].state = "live"

\* C10 (idempotent cleanup): an invocation of the cleanup capability of a
\* workspace that was already released raises no error and changes nothing
\* of the workspace.
C10_IdempotentCleanup ==
  [][\A i \in 1..Len(wss) :
       (i <= Len(wss') /\ wss[i].called /\ wss'[i].calls > wss[i].calls)
         => /\ wss'[i].state = wss[i].state
            /\ wss'[i].files = wss[i].files
            /\ wss'[i].called]_vars

\* C10, its case: the capability of a workspace was invoked a second time.
C10_Witness ==
  \E i \in 1..Len(wss) : wss[i].calls = 2 /\ wss[i].state = "destroyed"

(***************************************************************************)
(* The format selector: the argument list downloadWithProgress builds for  *)
(* the first attempt of a call (dl.args), read back as a download plan.     *)
(***************************************************************************)
\* The current call of downloadWithProgress has built its argument list.
Planned == dl.args # <<>>

Has(a, x) == \E i \in 1..Len(a) : a[i] = x

\* The format expression of a plan: the value that follows the first "-f".
FormatExpr(a) ==
  IF IndexOfF(a) = 0 \/ IndexOfF(a) = Len(a) THEN Undefined ELSE a[IndexOfF(a) + 1]

Merges(a) == Has(a, MERGE)
Recodes(a) == Has(a, RECODE)

\* The format descriptor the requested quality names in the probed metadata.
Selected == FindFormat([formats |-> StdFormats], dl.quality)

\* An admitted url of a platform that is not Facebook, X/Twitter or Instagram.
DefaultFamily(url) ==
  isValidVideoUrl(url) /\ ~IsFacebook(url) /\ ~IsX(url) /\ ~IsInstagram(url)

\* C11 (X/Twitter plan): for an X/Twitter url and any requested quality the
\* argument list selects bestvideo*+bestaudio/best, contains the
\* merge-container directive and contains no --recode-video.
C11_XTwitterPlan ==
  (Planned /\ IsX(dl.url))
    => /\ FormatExpr(dl.args) = BEST_X
       /\ Merges(dl.args)
       /\ ~Recodes(dl.args)

\* C12 (Facebook plan): for a Facebook url and any requested quality, none
\* included, the format expression is the fixed best-H.264+AAC expression
\* with merge and recode, and the requested quality is no element of the
\* argument list.
C12_FacebookPlan ==
  (Planned /\ IsFacebook(dl.url))
    => /\ FormatExpr(dl.args) = BEST_AVC
       /\ Merges(dl.args)
       /\ Recodes(dl.args)
       /\ Truthy(dl.quality) => ~Has(dl.args, dl.quality)

\* C13 (video-only selection): for a Default/YouTube-family url whose
\* requested quality q names a format with a video codec and audio codec
\* "none", the format expression is q + "+bestaudio[acodec^=mp4a]/best", with
\* merge and recode.
C13_VideoOnlySelection ==
  (Planned /\ DefaultFamily(dl.url) /\ Truthy(dl.quality)
     /\ IsVideoOnlyFormat(Selected))
    => /\ FormatExpr(dl.args) = dl.quality \o PLUS_BESTAUDIO
       /\ Merges(dl.args)
       /\ Recodes(dl.args)

\* C14 (audio-only selection): for a Default/YouTube-family url whose
\* requested quality names a format with video codec "none" and an audio
\* codec, the quality is the format expression unchanged and the list has
\* neither the merge nor the recode directive.
C14_AudioOnlySelection ==
  (Planned /\ DefaultFamily(dl.url) /\ Truthy(dl.quality)
     /\ IsAudioOnlyFormat(Selected))
    => /\ FormatExpr(dl.args) = dl.quality
       /\ ~Merges(dl.args)
       /\ ~Recodes(dl.args)

\* C15 (quality pass-through): for a Default/YouTube-family url whose
\* requested quality is neither audio-only nor video-only, the quality is the
\* format expression unchanged, with merge and recode.
C15_QualityPassThrough ==
  (Planned /\ DefaultFamily(dl.url) /\ Truthy(dl.quality)
     /\ ~IsAudioOnlyFormat(Selected) /\ ~IsVideoOnlyFormat(Selected))
    => /\ FormatExpr(dl.args) = dl.quality
       /\ Merges(dl.args)
       /\ Recodes(dl.args)

\* C16 (no-quality default): for a Default/YouTube-family url with no quality
\* requested the format expression is
\* bestvideo[vcodec^=avc1]+bestaudio[acodec^=mp4a]/best, with merge and recode.
C16_NoQualityDefault ==
  (Planned /\ DefaultFamily(dl.url) /\ ~Truthy(dl.quality))
    => /\ FormatExpr(dl.args) = BEST_AVC
       /\ Merges(dl.args)
       /\ Recodes(dl.args)

\* C17 (Instagram video-only): for an Instagram url whose requested quality
\* names a format with audio codec "none" the quality is the format
\* expression as it is and the list has no merge-container directive; every
\* other Instagram request merges and recodes.
C17_InstagramVideoOnly ==
  (Planned /\ IsInstagram(dl.url))
    => IF Truthy(dl.quality) /\ Selected # NoFormat /\ Selected.acodec = NONE
       THEN FormatExpr(dl.args) = dl.quality /\ ~Merges(dl.args)
       ELSE Merges(dl.args) /\ Recodes(dl.args)

(***************************************************************************)
(* The sanitizer (specification SanSpec)                                    *)
(***************************************************************************)
\* The name sanitizeFilename was applied to: info.title || uuidv4().
SanInput == IF Truthy(dl.title) THEN dl.title ELSE UuidV4

Sanitized == pc = "sanitized"

\* C18 (sanitizer alphabet and length): the result of sanitizeFilename has at
\* most 80 characters, each of which is a letter, a digit, an underscore or a
\* dot.
C18_SanitizerAlphabet ==
  Sanitized
    => /\ Len(dl.safeFilename) <= 80
       /\ \A i \in 1..Len(dl.safeFilename) :
            dl.safeFilename[i] \in Lower \cup Upper \cup Digit \cup {"_", "."}

\* C18, amended: the result of sanitizeFilename has at most 80 characters,
\* each of which is a letter, a digit, an underscore, a dot or a hyphen.
C18_SanitizerAlphabetWithHyphen ==
  Sanitized
    => /\ Len(dl.safeFilename) <= 80
       /\ \A i \in 1..Len(dl.safeFilename) :
            dl.safeFilename[i] \in Lower \cup Upper \cup Digit \cup {"_", ".", "-"}

\* C18, its case: a title of more than 80 characters that holds an unsafe
\* character was cut to 80 characters, a hyphen among them.
C18_Witness ==
  /\ Sanitized
  /\ Len(SanInput) > 80
  /\ \E i \in 1..Len(SanInput) : SanInput[i] \notin SafeChar
  /\ Len(dl.safeFilename) = 80
  /\ \E i \in 1..Len(dl.safeFilename) : dl.safeFilename[i] = "-"

\* C19 (sanitizer edges): the result of sanitizeFilename, for inputs longer
\* than 80 characters too, neither starts nor ends with an underscore.
C19_SanitizerEdges ==
  (Sanitized /\ dl.safeFilename # <<>>)
    => /\ dl.safeFilename[1] # "_"
       /\ dl.safeFilename[Len(dl.safeFilename)] # "_"

\* C20 (sanitizer underscore runs): the result of sanitizeFilename holds no
\* two adjacent underscores.
C20_NoUnderscoreRuns ==
  Sanitized
    => \A i \in 1..(Len(dl.safeFilename) - 1) :
         ~(dl.safeFilename[i] = "_" /\ dl.safeFilename[i + 1] = "_")

\* C20, its case: the input held two adjacent characters that each become an
\* underscore, and the result still holds an underscore.
C20_Witness ==
  /\ Sanitized
  /\ \E i \in 1..(Len(SanInput) - 1) :
       /\ SanInput[i] \in {"_", " "}
       /\ SanInput[i + 1] \in {"_", " "}
  /\ \E i \in 1..Len(dl.safeFilename) : dl.safeFilename[i] = "_"

(***************************************************************************)
(* The cookie resolver (specification CookieSpec)                           *)
(***************************************************************************)
\* The bundle the platform of a url is mapped to, Null for an unmapped url.
MappedBundle(url) ==
  IF ~IsString(url) THEN Null
  ELSE IF IsInstagram(url) THEN F_instagram
  ELSE IF IsYouTube(url) THEN F_youtube
  ELSE IF IsFacebook(url) THEN F_facebook
  ELSE IF Includes(url, D_tiktok) THEN F_tiktok
  ELSE IF IsX(url) THEN F_x
  ELSE Null

\* C21 (cookie resolver existence check): getCookiesFile returns the mapped
\* bundle if and only if the domain of the url is mapped and that file exists
\* at the moment of the call, and nothing otherwise; a file created or deleted
\* between two calls changes the result of the second.
C21_CookieExistence ==
  pc = "resolved"
    => dl.cookiesFile = IF MappedBundle(dl.url) \in cookies
                        THEN MappedBundle(dl.url) ELSE Null

(***************************************************************************)
(* The plan construction (specification PlanSpec)                           *)
(***************************************************************************)
\* The positions of an argument list that hold neither the cookie bundle nor
\* the output template.
PlanPositions(a) ==
  {i \in 1..Len(a) : /\ a[i] # COOKIES
                     /\ ~(i > 1 /\ a[i - 1] \in {COOKIES, OPT_O})}

\* The argument list without "--cookies <file>" and the value of "-o".
PlanOf(a) ==
  LET keep == PlanPositions(a)
  IN [j \in 1..Cardinality(keep) |->
        a[CHOOSE i \in keep : Cardinality({k \in keep : k <= i}) = j]]

\* C22 (format selection is deterministic): two runs of the plan construction
\* with the same url, the same requested quality and the same available
\* formats produce identical argument lists.
C22_SamePlanArgs ==
  \A i, j \in 1..Len(procs) : procs[i].args = procs[j].args

\* C22, amended: two runs of the plan construction with the same url, the
\* same requested quality and the same available formats produce argument
\* lists that are identical but for the cookie bundle and the output template,
\* whatever title the probe and whatever value uuidv4() returned and whatever
\* bundles exist on disk.
C22_SamePlan ==
  \A i, j \in 1..Len(procs) : PlanOf(procs[i].args) = PlanOf(procs[j].args)

\* C22, its case: two runs whose argument lists differ.
C22_Witness ==
  /\ pc = "planning"
  /\ Len(procs) >= 2
  /\ procs[1].args # procs[2].args
  /\ Has(procs[1].args, COOKIES) # Has(procs[2].args, COOKIES)

(***************************************************************************)
(* Batches (specification Spec)                                             *)
(***************************************************************************)
Running == {i \in 1..Len(procs) : procs[i].running}

\* C26 (batch is sequential): while a batch request is processed at most one
\* external process of the batch, probe or download, is running; the process
\* of the next item is started only after the process of the item before has
\* terminated.
C26_BatchSequential ==
  ep.route \in {"multi", "playlist"} => Cardinality(Running) <= 1

\* C27 (archive entry order): the entries of the archive of a batch are queued
\* in the order of the requests of the batch and read in the order they were
\* queued, whichever items fail.
C27_ArchiveEntryOrder ==
  \A j, k \in 1..Len(archive) :
    j < k => /\ archive[j].item < archive[k].item
             /\ archive[k].state # "queued" => archive[j].state # "queued"

\* C27, its case: a batch of which an item failed and a later item succeeded
\* has both entries in the archive, read to the end.
C27_Witness ==
  /\ Len(archive) >= 2
  /\ archive[1].kind = "text"
  /\ archive[2].kind # "text"
  /\ Queued(archive) = {}

(***************************************************************************)
(* The url validator (specification UrlSpec)                                *)
(***************************************************************************)
\* The position of the first "/" of s at or after position i, 0 if none.
FirstSlash(s, i) ==
  LET hits == {k \in i..Len(s) : s[k] = "/"}
  IN IF hits = {} THEN 0 ELSE CHOOSE k \in hits : \A m \in hits : k <= m

\* The text is a whitelisted hostname, or one label of letters, digits and
\* hyphens, a dot and a whitelisted hostname.
WhitelistedAuthority(a) ==
  \/ a \in Hosts
  \/ \E h \in Hosts :
       /\ Len(a) > Len(h) + 1
       /\ SubSeq(a, Len(a) - Len(h) + 1, Len(a)) = h
       /\ a[Len(a) - Len(h)] = "."
       /\ \A m \in 1..(Len(a) - Len(h) - 1) : a[m] \in LabelChar

\* The url read as scheme, "//", authority, path: an optional http: or
\* https:, then "//", then the text up to the next "/" as the authority.
WellFormedUrl(u) ==
  /\ IsString(u)
  /\ LET rest == IF SubSeq(u, 1, 6) = <<"h","t","t","p","s",":">> THEN SubSeq(u, 7, Len(u))
                 ELSE IF SubSeq(u, 1, 5) = <<"h","t","t","p",":">> THEN SubSeq(u, 6, Len(u))
                 ELSE u
     IN /\ Len(rest) >= 2
        /\ rest[1] = "/"
        /\ rest[2] = "/"
        /\ FirstSlash(rest, 3) # 0
        /\ WhitelistedAuthority(SubSeq(rest, 3, FirstSlash(rest, 3) - 1))

\* C28 (url validator whitelist): isValidVideoUrl returns true exactly for the
\* strings made of an optional http/https scheme, an optional single subdomain
\* label, one hostname of the whitelist and a path, and false for every other
\* value: a non-string, a url whose host only contains or ends with a
\* whitelisted name.
C28_ValidatorWhitelist ==
  /\ pc = "admitted" => WellFormedUrl(req.url)
  /\ pc = "done" => ~WellFormedUrl(req.url)

\* C28, its case: a string that holds a whitelisted hostname was rejected.
C28_Witness ==
  /\ pc = "done"
  /\ res.status = 400
  /\ IsString(req.url)
  /\ \E h \in Hosts : Includes(req.url, <<"/", "/">> \o h \o <<"/">>)

(***************************************************************************)
(* The diagnostic of a terminal failure                                     *)
(***************************************************************************)
\* The texts the external tool reports on a failed run.
ToolDiagnostics == {e.message : e \in Errors}

\* The single download was rejected on a failure of the tool (the probe, an
\* attempt not eligible for the retry, or the retry) and the handler answered.
FailedTerminally ==
  /\ ep.route = "downloads"
  /\ pc = "done"
  /\ dl.state = "failed"
  /\ dl.error.message # E_download_failed

\* C29: when a download fails terminally (a failure of the tool that is not
\* eligible for the retry, or the failure of the retry), the answer the caller
\* receives contains the raw diagnostic text the tool reported.
C29_FailureCarriesDiagnostic ==
  FailedTerminally =>
    /\ dl.error.message \in ToolDiagnostics
    /\ IsString(res.details)
    /\ Includes(res.details, dl.error.message)

\* An Instagram link with a quality whose retry failed with "Requested format
\* is not available", answered with that text.
C29_Witness ==
  /\ FailedTerminally
  /\ dl.triedFallback
  /\ Includes(dl.url, W_instagram)
  /\ res.details = E_instagram

(***************************************************************************)
(* Settlement of the orchestrator                                           *)
(***************************************************************************)
Pending == dl.state \in {"probing", "downloading"}
Settled == dl.state \in {"ready", "failed"}

\* A settled call keeps its state, its result and its error.
StaysSettled == Settled => dl' = dl

\* C30: every call of downloadWithProgress whose processes terminate settles
\* exactly once, Ready (a result is returned) or Failed (an error is raised):
\* a pending call is eventually settled, and a settled call never changes its
\* outcome, over every sequence of progress, error and close events of at
\* most two attempts.
C30_SettlesExactlyOnce ==
  /\ Pending ~> Settled
  /\ [][StaysSettled]_vars

\* A call settled after two attempts that reported progress.
C30_Witness ==
  /\ Settled
  /\ dl.triedFallback
  /\ Len(procs) = 3
  /\ Len(io) > 0

(***************************************************************************)
(* Progress events                                                          *)
(***************************************************************************)
\* The correlation token of the request; a batch request carries none.
Token == req.downloadId

\* The single download was just streamed to its end for a caller with a token.
StreamedWithToken ==
  /\ ep.route = "downloads"
  /\ Truthy(Token)
  /\ stream.state = "ended"

\* C23: the progress events of one download form a sequence that ends with
\* one percent = 100 event: no event is emitted after a percent = 100 event,
\* and a download streamed to its end has emitted one.
C23_TerminalProgress ==
  /\ \A i \in 1..Len(io) : io[i].percent = 100 => i = Len(io)
  /\ StreamedWithToken => (Len(io) > 0 /\ io[Len(io)].percent = 100)

\* The channels a client can have joined, and a subscriber as the set of the
\* channels it joined with socket.join(downloadId).
Rooms == {<<"d1">>, <<"d2">>}
Subscribers == SUBSET Rooms

\* socket.io delivers an event emitted to a room to the sockets that joined
\* it, and an event emitted with io.emit to every socket.
Delivered(e, joined) == e.to = Everyone \/ e.to \in joined

\* C24: every progress event of a download is delivered only to subscribers
\* that joined the channel named by the download's token; without a token
\* the event is delivered to no subscriber.
C24_ProgressRouting ==
  \A i \in 1..Len(io), s \in Subscribers :
    Delivered(io[i], s) => (Truthy(Token) /\ Token \in s)

\* The handler of an admitted batch has processed every item and is done.
BatchDone ==
  /\ ep.route = "multi"
  /\ ValidBatch(req.videos)
  /\ pc = "done"

\* C25: for every admitted batch, once all items are processed and the
\* archive is finalized, a percent = 100 progress event has been emitted,
\* whatever the mix of successful and failed items.
C25_BatchTerminalEvent ==
  BatchDone => \E i \in 1..Len(io) : io[i].percent = 100

(***************************************************************************)
(* The order of the steps of one call                                       *)
(***************************************************************************)
\* C31: within one request the metadata probe has completed before the
\* argument list is derived, the argument list is derived before a download
\* process is started, and the download process has terminated before the
\* artifact is validated and the result released to the caller.
C31_StepOrdering ==
  /\ Planned => (procs[1].kind = "probe" /\ ~procs[1].running)
  /\ \A i \in 1..Len(procs) :
       procs[i].kind = "download" =>
         (Planned /\ i > 1 /\ (i = 2 => procs[i].args = dl.args))
  /\ dl.state = "ready" => (Running = {} /\ Len(procs) >= 2 /\ dl.result # NoFile)

\* A result released after the probe and two attempts.
C31_Witness ==
  /\ dl.state = "ready"
  /\ Len(procs) = 3
  /\ procs[3].kind = "download"

(***************************************************************************)
(* Cleanup when the caller leaves                                           *)
(***************************************************************************)
\* The caller disconnected while the artifact was being streamed.
Disconnected == pc = "abandoned"

\* No workspace of the request is left on disk.
WorkspacesDestroyed == \A i \in 1..Len(wss) : wss[i].state # "live"

\* C32: if the caller disconnects after a DownloadResult was returned and
\* while the artifact is being streamed by /api/downloads, the workspace of
\* the request is eventually destroyed.
C32_CleanupOnDisconnect == Disconnected ~> WorkspacesDestroyed

(***************************************************************************)
(* The trigger of the retry                                                 *)
(***************************************************************************)
\* The fallback attempt was started on the error the call still holds.
Retrying == pc = "downloading" /\ dl.triedFallback

\* C33: the fallback attempt is started only when the first attempt failed
\* with "Requested format is not available" and a quality was requested; a
\* failure with any other diagnostic starts no second process.
C33_RetryTrigger ==
  Retrying => (Truthy(dl.quality) /\ ErrIncludes(dl.error, REQUESTED_FORMAT))

(***************************************************************************)
(* One response per request                                                 *)
(***************************************************************************)
\* C34: for every request to /api/downloads and /api/multi-downloads the
\* response head is written at most once: no handler or event callback tries
\* to send an error status after the success head or part of the body was
\* written.
C34_SingleResponse ==
  ep.route \in {"downloads", "multi"} => ~res.lateError

(***************************************************************************)
(* The artifact of an audio-only download                                   *)
(***************************************************************************)
\* The first attempt of a YouTube download with an audio-only quality runs.
AudioOnlyAttempt ==
  /\ pc = "downloading"
  /\ ~dl.triedFallback
  /\ IsYouTube(dl.url)
  /\ dl.quality = Q_audio_only

\* What the attempt writes on success: the output path is <base>.mp4 in
\* revision A; revisions B and C pass <base>.%(ext)s without merge or recode
\* options, and the format's container is m4a.
AudioArtifact ==
  << MkFile(dl.safeFilename \o (IF dl.rev = "A" THEN X_mp4 ELSE X_m4a),
            100000, TRUE, FALSE) >>

\* C35: when an audio-only quality is requested for a YouTube url and the
\* process exits successfully having written one artifact with the expected
\* basename, downloadWithProgress returns a DownloadResult for that artifact.
C35_AudioOnlyReady ==
  [][(AudioOnlyAttempt /\ CloseOn(AudioArtifact))
       => (dl'.state = "ready" /\ dl'.result = AudioArtifact[1])]_vars

(***************************************************************************)
(* The artifact lookup                                                      *)
(***************************************************************************)
\* The process wrote the genuine <basename>.mp4 and nothing else.
MergedArtifact == << MkFile(dl.safeFilename \o X_mp4, 100000, TRUE, FALSE) >>

\* The names of the fragment and partial files of the basename.
PartialNames == {dl.safeFilename \o X_fragment, dl.safeFilename \o X_part_mp4}

\* C36: when the process exits successfully and wrote <basename>.mp4 into the
\* workspace, the close handler selects exactly that file and returns Ready,
\* for every basename sanitizeFilename can produce (also one that holds a dot
\* followed by letters); and it never selects a partial or fragment file.
C36_LookupMatchesBasename ==
  [][\A files \in ProducedFiles(dl.safeFilename) :
       (pc = "downloading" /\ CloseOn(files)) =>
         /\ files = MergedArtifact =>
              (dl'.state = "ready" /\ dl'.result = MergedArtifact[1])
         /\ dl'.state = "ready" => dl'.result.name \notin PartialNames]_vars

(***************************************************************************)
(* The base filename                                                        *)
(***************************************************************************)
\* C37: the base filename used for the output artifact is never the empty
\* string, for every title, also a non-empty title made only of characters
\* the sanitizer replaces.
C37_NonEmptyBasename == Sanitized => dl.safeFilename # <<>>

(***************************************************************************)
(* The names of the archive entries                                         *)
(***************************************************************************)
\* C38: within one batch the names of the archive entries are pairwise
\* distinct and each successful item contributes its own artifact (no two
\* entries are read from the same file of the same workspace), also when two
\* items share the same title or the same source url.
C38_DistinctEntries ==
  ep.route = "multi" =>
    \A i, j \in 1..Len(archive) :
      i # j =>
        /\ archive[i].name # archive[j].name
        /\ (archive[i].kind = "file" /\ archive[j].kind = "file")
             => <<archive[i].ws, archive[i].src>> # <<archive[j].ws, archive[j].src>>

(***************************************************************************)
(* The bundle and the host (specification CookieSpec)                       *)
(***************************************************************************)
\* The host of a url: what stands between "//" and the next "/".
HostOf(url) ==
  LET from == (CHOOSE i \in 1..Len(url) :
                 /\ MatchAt(url, i, <<"/","/">>)
                 /\ \A j \in 1..(i - 1) : ~MatchAt(url, j, <<"/","/">>)) + 2
      stops == {k \in from..Len(url) : url[k] = "/"}
      to == IF stops = {} THEN Len(url) + 1
            ELSE CHOOSE k \in stops : \A m \in stops : k <= m
  IN SubSeq(url, from, to - 1)

\* The host is the domain or one of its subdomains.
InDomain(host, domain) ==
  \/ host = domain
  \/ /\ Len(host) > Len(domain)
     /\ SubSeq(host, Len(host) - Len(domain), Len(host)) = <<".">> \o domain

\* The bundle of the longest table entry the host of the url belongs to.
HostBundle(url) ==
  LET m == << <<D_instagram, F_instagram>> >> \o domainCookiesMap("A")
      hits == {i \in 1..Len(m) : InDomain(HostOf(url), m[i][1])}
  IN IF hits = {} THEN Null
     ELSE m[CHOOSE i \in hits : \A j \in hits : Len(m[i][1]) >= Len(m[j][1])][2]

\* C39: for every admitted url the bundle getCookiesFile returns is the one
\* mapped to the domain of the url's host (longest matching table entry);
\* domain names that occur only in the path or query of the url have no
\* effect on it.
C39_BundleFollowsHost ==
  (pc = "resolved" /\ isValidVideoUrl(dl.url))
    => dl.cookiesFile \in {Null, HostBundle(dl.url)}

=============================================================================
